---- MODULE Spec2Model ----
(***************************************************************************)
(* The redraw-event decoder of src/bridge/events.rs: parse_redraw_event    *)
(* and the per-event parsers it dispatches to, as a state machine that     *)
(* walks one payload element by element.                                   *)
(*                                                                         *)
(* Wire values (rmpv::Value) are tagged records; every kind keeps its      *)
(* payload under a field of its own, so that two values of different kinds *)
(* never share a field:                                                    *)
(*   nil, bool/b, int/i, f64/f, str/s+utf8, arr/a, map/m, ext/e.           *)
(* A parser's outcome is Ok(value), Err(ParseError) or Panic(message): a   *)
(* Rust panic (an index out of bounds, an unwrap of None) unwinds out of   *)
(* parse_redraw_event and is neither an Ok nor an Err.                     *)
(***************************************************************************)
EXTENDS Integers, Sequences, FiniteSets, TLC

VARIABLES event_value, pc, event_name, event_contents, parsed_events, result

vars == <<event_value, pc, event_name, event_contents, parsed_events, result>>

----------------------------------------------------------------------------
(* Bounds of the model.                                                    *)

\* Largest number of elements after the event name in a payload.
MaxTuples == 2

\* Largest number of elements a sampled tuple carries beyond REQ+OPT.
MaxExtra == 1

----------------------------------------------------------------------------
(* Integer widths.  TLC's integers are 32 bits wide, so the two 64-bit     *)
(* ranges of rmpv::Integer are modelled 33 bits narrower: i64 is           *)
(* -2^30 .. 2^30-1 and u64 is 0 .. 2^31-1.  What the code depends on is    *)
(* kept: every non-negative i64 is a u64, and there are u64 values that    *)
(* are no i64.                                                             *)

I64Max == 1073741823

U64Max == 2147483647

----------------------------------------------------------------------------
(* rmpv::Value                                                             *)

Nil == [t |-> "nil"]

B(b) == [t |-> "bool", b |-> b]

I(n) == [t |-> "int", i |-> n]

\* Floats, wire and decoded, are carried by an integer code of their value; the
\* float of the wire integer n has the code n.
F(x) == [t |-> "f64", f |-> x]

S(s) == [t |-> "str", s |-> s, utf8 |-> TRUE]

\* A wire string whose bytes are not valid UTF-8.
BadS == [t |-> "str", s |-> "\\xff", utf8 |-> FALSE]

A(seq) == [t |-> "arr", a |-> seq]

M(pairs) == [t |-> "map", m |-> pairs]

\* An extension value: Neovim's window handles arrive as these.
Ext(n) == [t |-> "ext", e |-> n]

----------------------------------------------------------------------------
(* Result<T, ParseError>, and the panic that escapes it.                   *)

Ok(x) == [k |-> "ok", val |-> x]

PE(kind, value) == [kind |-> kind, value |-> value]

Err(kind, value) == [k |-> "err", err |-> PE(kind, value)]

Panic(msg) == [k |-> "panic", msg |-> msg]

None == [some |-> FALSE]

Some(x) == [some |-> TRUE, val |-> x]

AllOk(rs) == \A i \in DOMAIN rs : rs[i].k = "ok"

\* The first outcome of rs that is no Ok: what a chain of `?` returns.
FirstBad(rs) ==
    rs[CHOOSE i \in DOMAIN rs :
          /\ rs[i].k # "ok"
          /\ \A j \in 1..(i - 1) : rs[j].k = "ok"]

\* format!("{values:?}")
Debug(values) == [fmt |-> "debug", dump |-> values]

DisplayPrefix(kind) ==
    CASE kind = "Array" -> "invalid array format "
      [] kind = "Map" -> "invalid map format "
      [] kind = "String" -> "invalid string format "
      [] kind = "U64" -> "invalid u64 format "
      [] kind = "I64" -> "invalid i64 format "
      [] kind = "F64" -> "invalid f64 format "
      [] kind = "Bool" -> "invalid bool format "
      [] kind = "WindowAnchor" -> "invalid window anchor format "
      [] kind = "Format" -> "invalid event format "

\* impl fmt::Display for ParseError
Display(e) == [fmt |-> "display", prefix |-> DisplayPrefix(e.kind), arg |-> e.value]

----------------------------------------------------------------------------
(* Primitive extractors.                                                   *)

\* unpack_color that shifts the red channel down without masking it.
unpack_color_RedUnmasked(packed_color) ==
    [r |-> <<packed_color \div 65536, 255>>,
     g |-> <<(packed_color \div 256) % 256, 255>>,
     b |-> <<packed_color % 256, 255>>,
     a |-> <<1, 1>>]

unpack_color(packed_color) ==
    [r |-> <<(packed_color \div 65536) % 256, 255>>,
     g |-> <<(packed_color \div 256) % 256, 255>>,
     b |-> <<packed_color % 256, 255>>,
     a |-> <<1, 1>>]

\* extract_values without its length check: the missing slots stay Value::Nil.
extract_values_NoLengthCheck(REQ, values) ==
    Ok([i \in 1..REQ |-> IF i <= Len(values) THEN values[i] ELSE Nil])

extract_values(REQ, values) ==
    IF REQ > Len(values)
    THEN Err("Format", Debug(values))
    ELSE Ok(SubSeq(values, 1, REQ))

\* extract_values_with_optional with the optional slots filled one place late.
extract_values_with_optional_OffByOne(REQ, OPT, values) ==
    IF REQ > Len(values)
    THEN Err("Format", Debug(values))
    ELSE IF Len(values) > REQ + OPT
    THEN Panic("index out of bounds")
    ELSE Ok([req |-> SubSeq(values, 1, REQ),
             opt |-> [j \in 1..OPT |->
                        IF REQ + j < Len(values) THEN Some(values[REQ + j]) ELSE None]])

extract_values_with_optional(REQ, OPT, values) ==
    IF REQ > Len(values)
    THEN Err("Format", Debug(values))
    ELSE IF Len(values) > REQ + OPT
    THEN Panic("index out of bounds")
    ELSE Ok([req |-> SubSeq(values, 1, REQ),
             opt |-> [j \in 1..OPT |->
                        IF REQ + j <= Len(values) THEN Some(values[REQ + j]) ELSE None]])

parse_array(array_value) ==
    IF array_value.t = "arr" THEN Ok(array_value.a) ELSE Err("Array", array_value)

parse_map(map_value) ==
    IF map_value.t = "map" THEN Ok(map_value.m) ELSE Err("Map", map_value)

parse_string(string_value) ==
    IF string_value.t = "str"
    THEN Ok(IF string_value.utf8 THEN string_value.s ELSE "U+FFFD")
    ELSE Err("String", string_value)

parse_u64(u64_value) ==
    IF u64_value.t = "int" /\ u64_value.i >= 0
    THEN Ok(u64_value.i)
    ELSE Err("U64", u64_value)

parse_i64(i64_value) ==
    IF i64_value.t = "int" /\ i64_value.i <= I64Max
    THEN Ok(i64_value.i)
    ELSE Err("I64", i64_value)

\* f64::try_from(Value) takes a wire float and, as a float, a wire integer.
parse_f64(f64_value) ==
    IF f64_value.t = "f64" THEN Ok(f64_value.f)
    ELSE IF f64_value.t = "int" THEN Ok(f64_value.i)
    ELSE Err("F64", f64_value)

parse_bool(bool_value) ==
    IF bool_value.t = "bool" THEN Ok(bool_value.b) ELSE Err("Bool", bool_value)

\* Option<Value>::map(parse).transpose()
parse_opt_u64(o) ==
    IF ~o.some THEN Ok(None)
    ELSE IF parse_u64(o.val).k = "ok" THEN Ok(Some(parse_u64(o.val).val))
    ELSE parse_u64(o.val)

parse_opt_f64(o) ==
    IF ~o.some THEN Ok(None)
    ELSE IF parse_f64(o.val).k = "ok" THEN Ok(Some(parse_f64(o.val).val))
    ELSE parse_f64(o.val)

----------------------------------------------------------------------------
(* Per-event parsers, first half.                                          *)

parse_set_title(set_title_arguments) ==
    LET ex == extract_values(1, set_title_arguments) IN
    IF ex.k # "ok" THEN ex
    ELSE LET title == parse_string(ex.val[1]) IN
         IF title.k # "ok" THEN title
         ELSE Ok([type |-> "SetTitle", title |-> title.val])

\* CursorShape::from_type_name of crate::editor
CursorShape_from_type_name(name) ==
    CASE name = "block" -> Some("Block")
      [] name = "horizontal" -> Some("Horizontal")
      [] name = "vertical" -> Some("Vertical")
      [] OTHER -> None

\* CursorMode::default()
CursorMode_default ==
    [shape |-> None, style_id |-> None, cell_percentage |-> None,
     blinkwait |-> None, blinkon |-> None, blinkoff |-> None]

\* mode_info_entry whose catch-all arm starts the CursorMode afresh.
mode_info_entry_UnknownResets(mode_info, entry) ==
    LET name == parse_string(entry[1])
        value == entry[2]
    IN
    IF name.k # "ok" THEN name
    ELSE CASE name.val = "cursor_shape" ->
                IF parse_string(value).k # "ok" THEN parse_string(value)
                ELSE Ok([mode_info EXCEPT
                           !.shape = CursorShape_from_type_name(parse_string(value).val)])
           [] name.val = "cell_percentage" ->
                IF parse_u64(value).k # "ok" THEN parse_u64(value)
                ELSE Ok([mode_info EXCEPT
                           !.cell_percentage = Some(<<parse_u64(value).val, 100>>)])
           [] name.val = "blinkwait" ->
                IF parse_u64(value).k # "ok" THEN parse_u64(value)
                ELSE Ok([mode_info EXCEPT !.blinkwait = Some(parse_u64(value).val)])
           [] name.val = "blinkon" ->
                IF parse_u64(value).k # "ok" THEN parse_u64(value)
                ELSE Ok([mode_info EXCEPT !.blinkon = Some(parse_u64(value).val)])
           [] name.val = "blinkoff" ->
                IF parse_u64(value).k # "ok" THEN parse_u64(value)
                ELSE Ok([mode_info EXCEPT !.blinkoff = Some(parse_u64(value).val)])
           [] name.val = "attr_id" ->
                IF parse_u64(value).k # "ok" THEN parse_u64(value)
                ELSE Ok([mode_info EXCEPT !.style_id = Some(parse_u64(value).val)])
           [] OTHER -> Ok(CursorMode_default)

\* One (name, value) entry of a mode_info map applied to mode_info.
mode_info_entry(mode_info, entry) ==
    LET name == parse_string(entry[1])
        value == entry[2]
    IN
    IF name.k # "ok" THEN name
    ELSE CASE name.val = "cursor_shape" ->
                IF parse_string(value).k # "ok" THEN parse_string(value)
                ELSE Ok([mode_info EXCEPT
                           !.shape = CursorShape_from_type_name(parse_string(value).val)])
           [] name.val = "cell_percentage" ->
                IF parse_u64(value).k # "ok" THEN parse_u64(value)
                ELSE Ok([mode_info EXCEPT
                           !.cell_percentage = Some(<<parse_u64(value).val, 100>>)])
           [] name.val = "blinkwait" ->
                IF parse_u64(value).k # "ok" THEN parse_u64(value)
                ELSE Ok([mode_info EXCEPT !.blinkwait = Some(parse_u64(value).val)])
           [] name.val = "blinkon" ->
                IF parse_u64(value).k # "ok" THEN parse_u64(value)
                ELSE Ok([mode_info EXCEPT !.blinkon = Some(parse_u64(value).val)])
           [] name.val = "blinkoff" ->
                IF parse_u64(value).k # "ok" THEN parse_u64(value)
                ELSE Ok([mode_info EXCEPT !.blinkoff = Some(parse_u64(value).val)])
           [] name.val = "attr_id" ->
                IF parse_u64(value).k # "ok" THEN parse_u64(value)
                ELSE Ok([mode_info EXCEPT !.style_id = Some(parse_u64(value).val)])
           [] OTHER -> Ok(mode_info)

RECURSIVE mode_info_entries(_, _)
\* for (name, value) in info_map { ... }
mode_info_entries(mode_info, info_map) ==
    IF info_map = <<>> THEN Ok(mode_info)
    ELSE LET step == mode_info_entry(mode_info, Head(info_map)) IN
         IF step.k # "ok" THEN step
         ELSE mode_info_entries(step.val, Tail(info_map))

\* The body of the loop over mode_info_values: one map to one CursorMode.
parse_cursor_mode(mode_info_value) ==
    LET info_map == parse_map(mode_info_value) IN
    IF info_map.k # "ok" THEN info_map
    ELSE mode_info_entries(CursorMode_default, info_map.val)

parse_mode_info_set(mode_info_set_arguments) ==
    LET ex == extract_values(2, mode_info_set_arguments) IN
    IF ex.k # "ok" THEN ex
    ELSE LET mode_info_values == parse_array(ex.val[2]) IN
         IF mode_info_values.k # "ok" THEN mode_info_values
         ELSE LET rs == [i \in DOMAIN mode_info_values.val |->
                           parse_cursor_mode(mode_info_values.val[i])]
              IN
              IF ~AllOk(rs) THEN FirstBad(rs)
              ELSE Ok([type |-> "ModeInfoSet",
                       cursor_modes |-> [i \in DOMAIN rs |-> rs[i].val]])

\* The match of parse_option_set on the option's name.
gui_option(name, value) ==
    CASE name = "arabicshape" ->
           IF parse_bool(value).k # "ok" THEN parse_bool(value)
           ELSE Ok([opt |-> "ArabicShape", flag |-> parse_bool(value).val])
      [] name = "ambiwidth" ->
           IF parse_string(value).k # "ok" THEN parse_string(value)
           ELSE Ok([opt |-> "AmbiWidth", text |-> parse_string(value).val])
      [] name = "emoji" ->
           IF parse_bool(value).k # "ok" THEN parse_bool(value)
           ELSE Ok([opt |-> "Emoji", flag |-> parse_bool(value).val])
      [] name = "guifont" ->
           IF parse_string(value).k # "ok" THEN parse_string(value)
           ELSE Ok([opt |-> "GuiFont", text |-> parse_string(value).val])
      [] name = "guifontset" ->
           IF parse_string(value).k # "ok" THEN parse_string(value)
           ELSE Ok([opt |-> "GuiFontSet", text |-> parse_string(value).val])
      [] name = "guifontwide" ->
           IF parse_string(value).k # "ok" THEN parse_string(value)
           ELSE Ok([opt |-> "GuiFontWide", text |-> parse_string(value).val])
      [] name = "linespace" ->
           IF parse_f64(value).k # "ok" THEN parse_f64(value)
           ELSE Ok([opt |-> "LineSpace", float |-> parse_f64(value).val])
      [] name = "pumblend" ->
           IF parse_u64(value).k # "ok" THEN parse_u64(value)
           ELSE Ok([opt |-> "Pumblend", number |-> parse_u64(value).val])
      [] name = "showtabline" ->
           IF parse_u64(value).k # "ok" THEN parse_u64(value)
           ELSE Ok([opt |-> "ShowTabLine", number |-> parse_u64(value).val])
      [] name = "termguicolors" ->
           IF parse_bool(value).k # "ok" THEN parse_bool(value)
           ELSE Ok([opt |-> "TermGuiColors", flag |-> parse_bool(value).val])
      [] OTHER -> Ok([opt |-> "Unknown", name |-> name, raw |-> value])

\* parse_option_set that keeps an unknown option only when its value is a string.
parse_option_set_UnknownNeedsString(option_set_arguments) ==
    LET ex == extract_values(2, option_set_arguments) IN
    IF ex.k # "ok" THEN ex
    ELSE LET name == parse_string(ex.val[1]) IN
         IF name.k # "ok" THEN name
         ELSE LET opt == gui_option(name.val, ex.val[2]) IN
              IF opt.k # "ok" THEN opt
              ELSE IF opt.val.opt = "Unknown" /\ parse_string(ex.val[2]).k # "ok"
              THEN parse_string(ex.val[2])
              ELSE Ok([type |-> "OptionSet", gui_option |-> opt.val])

parse_option_set(option_set_arguments) ==
    LET ex == extract_values(2, option_set_arguments) IN
    IF ex.k # "ok" THEN ex
    ELSE LET name == parse_string(ex.val[1]) IN
         IF name.k # "ok" THEN name
         ELSE LET opt == gui_option(name.val, ex.val[2]) IN
              IF opt.k # "ok" THEN opt
              ELSE Ok([type |-> "OptionSet", gui_option |-> opt.val])

\* The match of parse_mode_change on the mode's name.
editor_mode(mode_name) ==
    CASE mode_name = "normal" -> [mode |-> "Normal"]
      [] mode_name = "insert" -> [mode |-> "Insert"]
      [] mode_name = "visual" -> [mode |-> "Visual"]
      [] mode_name = "replace" -> [mode |-> "Replace"]
      [] mode_name = "cmdline_normal" -> [mode |-> "CmdLine"]
      [] OTHER -> [mode |-> "Unknown", name |-> mode_name]

parse_mode_change(mode_change_arguments) ==
    LET ex == extract_values(2, mode_change_arguments) IN
    IF ex.k # "ok" THEN ex
    ELSE LET mode_name == parse_string(ex.val[1])
             mode_index == parse_u64(ex.val[2])
         IN
         IF mode_name.k # "ok" THEN mode_name
         ELSE IF mode_index.k # "ok" THEN mode_index
         ELSE Ok([type |-> "ModeChange", mode |-> editor_mode(mode_name.val),
                  mode_index |-> mode_index.val])

parse_grid_resize(grid_resize_arguments) ==
    LET ex == extract_values(3, grid_resize_arguments) IN
    IF ex.k # "ok" THEN ex
    ELSE LET rs == [i \in 1..3 |-> parse_u64(ex.val[i])] IN
         IF ~AllOk(rs) THEN FirstBad(rs)
         ELSE Ok([type |-> "Resize", grid |-> rs[1].val, width |-> rs[2].val,
                  height |-> rs[3].val])

parse_default_colors(default_colors_arguments) ==
    LET ex == extract_values(5, default_colors_arguments) IN
    IF ex.k # "ok" THEN ex
    ELSE LET rs == [i \in 1..3 |-> parse_u64(ex.val[i])] IN
         IF ~AllOk(rs) THEN FirstBad(rs)
         ELSE Ok([type |-> "DefaultColorsSet",
                  colors |-> [foreground |-> Some(unpack_color(rs[1].val)),
                              background |-> Some(unpack_color(rs[2].val)),
                              special |-> Some(unpack_color(rs[3].val))]])

\* Style::new(Colors::new(None, None, None)) of crate::editor
Style_new ==
    [colors |-> [foreground |-> None, background |-> None, special |-> None],
     reverse |-> FALSE, italic |-> FALSE, bold |-> FALSE, strikethrough |-> FALSE,
     blend |-> 0, underline |-> None]

\* rmpv::Integer::as_u64().unwrap()
as_u64_unwrap(value) ==
    IF value.i >= 0 THEN Ok(value.i) ELSE Panic("called Option::unwrap() on a None value")

\* One attribute of the style map applied to style: the body of parse_style's loop.
style_attribute(style, attribute) ==
    LET key == attribute[1]
        value == attribute[2]
        name == key.s
        isInt == value.t = "int"
        isBool == value.t = "bool"
        isTrue == value.t = "bool" /\ value.b
    IN
    IF key.t # "str" THEN Ok(style)
    ELSE IF ~key.utf8 THEN Panic("called Option::unwrap() on a None value")
    ELSE CASE name = "foreground" /\ isInt ->
                IF as_u64_unwrap(value).k # "ok" THEN as_u64_unwrap(value)
                ELSE Ok([style EXCEPT
                           !.colors.foreground = Some(unpack_color(value.i))])
           [] name = "background" /\ isInt ->
                IF as_u64_unwrap(value).k # "ok" THEN as_u64_unwrap(value)
                ELSE Ok([style EXCEPT
                           !.colors.background = Some(unpack_color(value.i))])
           [] name = "special" /\ isInt ->
                IF as_u64_unwrap(value).k # "ok" THEN as_u64_unwrap(value)
                ELSE Ok([style EXCEPT
                           !.colors.special = Some(unpack_color(value.i))])
           [] name = "reverse" /\ isBool -> Ok([style EXCEPT !.reverse = value.b])
           [] name = "italic" /\ isBool -> Ok([style EXCEPT !.italic = value.b])
           [] name = "bold" /\ isBool -> Ok([style EXCEPT !.bold = value.b])
           [] name = "strikethrough" /\ isBool ->
                Ok([style EXCEPT !.strikethrough = value.b])
           [] name = "blend" /\ isInt ->
                IF as_u64_unwrap(value).k # "ok" THEN as_u64_unwrap(value)
                ELSE Ok([style EXCEPT !.blend = value.i % 256])
           [] name = "underline" /\ isTrue ->
                Ok([style EXCEPT !.underline = Some("Underline")])
           [] name = "undercurl" /\ isTrue ->
                Ok([style EXCEPT !.underline = Some("UnderCurl")])
           [] name \in {"underdotted", "underdot"} /\ isTrue ->
                Ok([style EXCEPT !.underline = Some("UnderDot")])
           [] name \in {"underdashed", "underdash"} /\ isTrue ->
                Ok([style EXCEPT !.underline = Some("UnderDash")])
           [] name \in {"underdouble", "underlineline"} /\ isTrue ->
                Ok([style EXCEPT !.underline = Some("UnderDouble")])
           [] OTHER -> Ok(style)

RECURSIVE style_attributes(_, _)
\* for attribute in attributes { ... }
style_attributes(style, attributes) ==
    IF attributes = <<>> THEN Ok(style)
    ELSE LET step == style_attribute(style, Head(attributes)) IN
         IF step.k # "ok" THEN step
         ELSE style_attributes(step.val, Tail(attributes))

\* parse_style that walks the map from its last entry to its first.
parse_style_BackToFront(style_map, info_array) ==
    LET attributes == parse_map(style_map) IN
    IF attributes.k # "ok" THEN attributes
    ELSE LET n == Len(attributes.val) IN
         style_attributes(Style_new, [j \in 1..n |-> attributes.val[n + 1 - j]])

parse_style(style_map, info_array) ==
    LET attributes == parse_map(style_map) IN
    IF attributes.k # "ok" THEN attributes
    ELSE style_attributes(Style_new, attributes.val)

parse_hl_attr_define(hl_attr_define_arguments) ==
    LET ex == extract_values(4, hl_attr_define_arguments) IN
    IF ex.k # "ok" THEN ex
    ELSE LET style == parse_style(ex.val[2], ex.val[4])
             id == parse_u64(ex.val[1])
         IN
         IF style.k # "ok" THEN style
         ELSE IF id.k # "ok" THEN id
         ELSE Ok([type |-> "HighlightAttributesDefine", id |-> id.val,
                  style |-> style.val])

\* parse_grid_line_cell that reads the repeat count from the highlight's element.
parse_grid_line_cell_RepeatFromHighlight(grid_line_cell) ==
    LET cell_contents == parse_array(grid_line_cell) IN
    IF cell_contents.k # "ok" THEN cell_contents
    ELSE LET c == cell_contents.val IN
         IF Len(c) = 0 THEN Err("Format", Debug(c))
         ELSE LET highlight_id == parse_opt_u64(IF Len(c) >= 2 THEN Some(c[2]) ELSE None)
                  repeat == parse_opt_u64(IF Len(c) >= 3 THEN Some(c[2]) ELSE None)
                  text == parse_string(c[1])
              IN
              IF highlight_id.k # "ok" THEN highlight_id
              ELSE IF repeat.k # "ok" THEN repeat
              ELSE IF text.k # "ok" THEN text
              ELSE Ok([text |-> text.val, highlight_id |-> highlight_id.val,
                       repeat |-> repeat.val])

parse_grid_line_cell(grid_line_cell) ==
    LET cell_contents == parse_array(grid_line_cell) IN
    IF cell_contents.k # "ok" THEN cell_contents
    ELSE LET c == cell_contents.val IN
         IF Len(c) = 0 THEN Err("Format", Debug(c))
         ELSE LET highlight_id == parse_opt_u64(IF Len(c) >= 2 THEN Some(c[2]) ELSE None)
                  repeat == parse_opt_u64(IF Len(c) >= 3 THEN Some(c[3]) ELSE None)
                  text == parse_string(c[1])
              IN
              IF highlight_id.k # "ok" THEN highlight_id
              ELSE IF repeat.k # "ok" THEN repeat
              ELSE IF text.k # "ok" THEN text
              ELSE Ok([text |-> text.val, highlight_id |-> highlight_id.val,
                       repeat |-> repeat.val])

parse_grid_line(grid_line_arguments) ==
    LET ex == extract_values(4, grid_line_arguments) IN
    IF ex.k # "ok" THEN ex
    ELSE LET rs == [i \in 1..3 |-> parse_u64(ex.val[i])]
             cells == parse_array(ex.val[4])
         IN
         IF ~AllOk(rs) THEN FirstBad(rs)
         ELSE IF cells.k # "ok" THEN cells
         ELSE LET cs == [i \in DOMAIN cells.val |-> parse_grid_line_cell(cells.val[i])] IN
              IF ~AllOk(cs) THEN FirstBad(cs)
              ELSE Ok([type |-> "GridLine", grid |-> rs[1].val, row |-> rs[2].val,
                       column_start |-> rs[3].val,
                       cells |-> [i \in DOMAIN cs |-> cs[i].val]])

parse_grid_clear(grid_clear_arguments) ==
    LET ex == extract_values(1, grid_clear_arguments) IN
    IF ex.k # "ok" THEN ex
    ELSE LET grid == parse_u64(ex.val[1]) IN
         IF grid.k # "ok" THEN grid ELSE Ok([type |-> "Clear", grid |-> grid.val])

parse_grid_destroy(grid_destroy_arguments) ==
    LET ex == extract_values(1, grid_destroy_arguments) IN
    IF ex.k # "ok" THEN ex
    ELSE LET grid == parse_u64(ex.val[1]) IN
         IF grid.k # "ok" THEN grid ELSE Ok([type |-> "Destroy", grid |-> grid.val])

\* validate with the sign dropped instead of the value clamped.
validate_Negates(v) == IF v < 0 THEN -v ELSE v

\* The closure `validate` of parse_grid_cursor_goto.
validate(v) == IF v < 0 THEN 0 ELSE v

parse_grid_cursor_goto(cursor_goto_arguments) ==
    LET ex == extract_values(3, cursor_goto_arguments) IN
    IF ex.k # "ok" THEN ex
    ELSE LET grid == parse_u64(ex.val[1])
             row == parse_i64(ex.val[2])
             column == parse_i64(ex.val[3])
         IN
         IF grid.k # "ok" THEN grid
         ELSE IF row.k # "ok" THEN row
         ELSE IF column.k # "ok" THEN column
         ELSE Ok([type |-> "CursorGoto", grid |-> grid.val, row |-> validate(row.val),
                  column |-> validate(column.val)])

parse_grid_scroll(grid_scroll_arguments) ==
    LET ex == extract_values(7, grid_scroll_arguments) IN
    IF ex.k # "ok" THEN ex
    ELSE LET rs == [i \in 1..7 |->
                      IF i <= 5 THEN parse_u64(ex.val[i]) ELSE parse_i64(ex.val[i])]
         IN
         IF ~AllOk(rs) THEN FirstBad(rs)
         ELSE Ok([type |-> "Scroll", grid |-> rs[1].val, top |-> rs[2].val,
                  bottom |-> rs[3].val, left |-> rs[4].val, right |-> rs[5].val,
                  rows |-> rs[6].val, columns |-> rs[7].val])

----------------------------------------------------------------------------
(* Per-event parsers, second half.                                         *)

\* parse_win_pos that reads the window handle as an unsigned integer.
parse_win_pos_ReadsWindow(win_pos_arguments) ==
    LET ex == extract_values(6, win_pos_arguments) IN
    IF ex.k # "ok" THEN ex
    ELSE LET a == ex.val
             rs == <<parse_u64(a[1]), parse_u64(a[2]), parse_u64(a[3]), parse_u64(a[4]),
                     parse_u64(a[5]), parse_u64(a[6])>>
         IN
         IF ~AllOk(rs) THEN FirstBad(rs)
         ELSE Ok([type |-> "WindowPosition", grid |-> rs[1].val, start_row |-> rs[3].val,
                  start_column |-> rs[4].val, width |-> rs[5].val, height |-> rs[6].val])

parse_win_pos(win_pos_arguments) ==
    LET ex == extract_values(6, win_pos_arguments) IN
    IF ex.k # "ok" THEN ex
    ELSE LET a == ex.val
             rs == <<parse_u64(a[1]), parse_u64(a[3]), parse_u64(a[4]), parse_u64(a[5]),
                     parse_u64(a[6])>>
         IN
         IF ~AllOk(rs) THEN FirstBad(rs)
         ELSE Ok([type |-> "WindowPosition", grid |-> rs[1].val, start_row |-> rs[2].val,
                  start_column |-> rs[3].val, width |-> rs[4].val, height |-> rs[5].val])

parse_window_anchor(value) ==
    LET value_str == parse_string(value) IN
    IF value_str.k # "ok" THEN value_str
    ELSE CASE value_str.val = "NW" -> Ok("NorthWest")
           [] value_str.val = "NE" -> Ok("NorthEast")
           [] value_str.val = "SW" -> Ok("SouthWest")
           [] value_str.val = "SE" -> Ok("SouthEast")
           [] OTHER -> Err("WindowAnchor", S(value_str.val))

parse_win_float_pos(win_float_pos_arguments) ==
    LET ex == extract_values_with_optional(8, 3, win_float_pos_arguments) IN
    IF ex.k # "ok" THEN ex
    ELSE LET a == ex.val.req
             o == ex.val.opt
             rs == <<parse_u64(a[1]), parse_window_anchor(a[3]), parse_u64(a[4]),
                     parse_f64(a[5]), parse_f64(a[6]), parse_bool(a[7]), parse_u64(a[8]),
                     parse_opt_u64(o[1]), parse_opt_u64(o[2]), parse_opt_u64(o[3])>>
         IN
         IF ~AllOk(rs) THEN FirstBad(rs)
         ELSE Ok([type |-> "WindowFloatPosition", grid |-> rs[1].val,
                  anchor |-> rs[2].val, anchor_grid |-> rs[3].val,
                  anchor_row |-> rs[4].val, anchor_column |-> rs[5].val,
                  mouse_enabled |-> rs[6].val, z_index |-> rs[7].val,
                  comp_index |-> rs[8].val, screen_row |-> rs[9].val,
                  screen_col |-> rs[10].val])

parse_win_external_pos(win_external_pos_arguments) ==
    LET ex == extract_values(2, win_external_pos_arguments) IN
    IF ex.k # "ok" THEN ex
    ELSE LET grid == parse_u64(ex.val[1]) IN
         IF grid.k # "ok" THEN grid
         ELSE Ok([type |-> "WindowExternalPosition", grid |-> grid.val])

parse_win_hide(win_hide_arguments) ==
    LET ex == extract_values(1, win_hide_arguments) IN
    IF ex.k # "ok" THEN ex
    ELSE LET grid == parse_u64(ex.val[1]) IN
         IF grid.k # "ok" THEN grid ELSE Ok([type |-> "WindowHide", grid |-> grid.val])

parse_win_close(win_close_arguments) ==
    LET ex == extract_values(1, win_close_arguments) IN
    IF ex.k # "ok" THEN ex
    ELSE LET grid == parse_u64(ex.val[1]) IN
         IF grid.k # "ok" THEN grid ELSE Ok([type |-> "WindowClose", grid |-> grid.val])

parse_msg_set_pos(msg_set_pos_arguments) ==
    LET ex == extract_values_with_optional(4, 2, msg_set_pos_arguments) IN
    IF ex.k # "ok" THEN ex
    ELSE LET a == ex.val.req
             o == ex.val.opt
             rs == <<parse_u64(a[1]), parse_u64(a[2]), parse_bool(a[3]), parse_string(a[4]),
                     parse_opt_u64(o[1]), parse_opt_u64(o[2])>>
         IN
         IF ~AllOk(rs) THEN FirstBad(rs)
         ELSE Ok([type |-> "MessageSetPosition", grid |-> rs[1].val, row |-> rs[2].val,
                  scrolled |-> rs[3].val, separator_character |-> rs[4].val,
                  z_index |-> rs[5].val, comp_index |-> rs[6].val])

parse_win_viewport(win_viewport_arguments) ==
    LET ex == extract_values_with_optional(6, 2, win_viewport_arguments) IN
    IF ex.k # "ok" THEN ex
    ELSE LET a == ex.val.req
             o == ex.val.opt
             rs == <<parse_u64(a[1]), parse_f64(a[3]), parse_f64(a[4]), parse_f64(a[5]),
                     parse_f64(a[6]), parse_opt_f64(o[1]), parse_opt_f64(o[2])>>
         IN
         IF ~AllOk(rs) THEN FirstBad(rs)
         ELSE Ok([type |-> "WindowViewport", grid |-> rs[1].val, top_line |-> rs[2].val,
                  bottom_line |-> rs[3].val, current_line |-> rs[4].val,
                  current_column |-> rs[5].val, line_count |-> rs[6].val,
                  scroll_delta |-> rs[7].val])

parse_win_viewport_margins(win_viewport_margins_arguments) ==
    LET ex == extract_values(6, win_viewport_margins_arguments) IN
    IF ex.k # "ok" THEN ex
    ELSE LET a == ex.val
             rs == <<parse_u64(a[1]), parse_u64(a[3]), parse_u64(a[4]), parse_u64(a[5]),
                     parse_u64(a[6])>>
         IN
         IF ~AllOk(rs) THEN FirstBad(rs)
         ELSE Ok([type |-> "WindowViewportMargins", grid |-> rs[1].val, top |-> rs[2].val,
                  bottom |-> rs[3].val, left |-> rs[4].val, right |-> rs[5].val])

\* The closure of parse_styled_content: one (style_id, text) pair.
parse_styled_pair(tuple) ==
    LET arr == parse_array(tuple) IN
    IF arr.k # "ok" THEN arr
    ELSE LET ex == extract_values(2, arr.val) IN
         IF ex.k # "ok" THEN ex
         ELSE LET style_id == parse_u64(ex.val[1])
                  text == parse_string(ex.val[2])
              IN
              IF style_id.k # "ok" THEN style_id
              ELSE IF text.k # "ok" THEN text
              ELSE Ok(<<style_id.val, text.val>>)

parse_styled_content(line) ==
    LET arr == parse_array(line) IN
    IF arr.k # "ok" THEN arr
    ELSE LET rs == [i \in DOMAIN arr.val |-> parse_styled_pair(arr.val[i])] IN
         IF ~AllOk(rs) THEN FirstBad(rs)
         ELSE Ok([i \in DOMAIN rs |-> rs[i].val])

parse_cmdline_show(cmdline_show_arguments) ==
    LET ex == extract_values(6, cmdline_show_arguments) IN
    IF ex.k # "ok" THEN ex
    ELSE LET a == ex.val
             rs == <<parse_styled_content(a[1]), parse_u64(a[2]), parse_string(a[3]),
                     parse_string(a[4]), parse_u64(a[5]), parse_u64(a[6])>>
         IN
         IF ~AllOk(rs) THEN FirstBad(rs)
         ELSE Ok([type |-> "CommandLineShow", content |-> rs[1].val,
                  position |-> rs[2].val, first_character |-> rs[3].val,
                  prompt |-> rs[4].val, indent |-> rs[5].val, level |-> rs[6].val])

parse_cmdline_pos(cmdline_pos_arguments) ==
    LET ex == extract_values(2, cmdline_pos_arguments) IN
    IF ex.k # "ok" THEN ex
    ELSE LET rs == <<parse_u64(ex.val[1]), parse_u64(ex.val[2])>> IN
         IF ~AllOk(rs) THEN FirstBad(rs)
         ELSE Ok([type |-> "CommandLinePosition", position |-> rs[1].val,
                  level |-> rs[2].val])

parse_cmdline_special_char(cmdline_special_char_arguments) ==
    LET ex == extract_values(3, cmdline_special_char_arguments) IN
    IF ex.k # "ok" THEN ex
    ELSE LET rs == <<parse_string(ex.val[1]), parse_bool(ex.val[2]), parse_u64(ex.val[3])>>
         IN
         IF ~AllOk(rs) THEN FirstBad(rs)
         ELSE Ok([type |-> "CommandLineSpecialCharacter", character |-> rs[1].val,
                  shift |-> rs[2].val, level |-> rs[3].val])

parse_cmdline_block_show(cmdline_block_show_arguments) ==
    LET ex == extract_values(1, cmdline_block_show_arguments) IN
    IF ex.k # "ok" THEN ex
    ELSE LET lines == parse_array(ex.val[1]) IN
         IF lines.k # "ok" THEN lines
         ELSE LET rs == [i \in DOMAIN lines.val |-> parse_styled_content(lines.val[i])] IN
              IF ~AllOk(rs) THEN FirstBad(rs)
              ELSE Ok([type |-> "CommandLineBlockShow",
                       lines |-> [i \in DOMAIN rs |-> rs[i].val]])

parse_cmdline_block_append(cmdline_block_append_arguments) ==
    LET ex == extract_values(1, cmdline_block_append_arguments) IN
    IF ex.k # "ok" THEN ex
    ELSE LET line == parse_styled_content(ex.val[1]) IN
         IF line.k # "ok" THEN line
         ELSE Ok([type |-> "CommandLineBlockAppend", line |-> line.val])

MessageKind_parse(kind) ==
    CASE kind = "confirm" -> "Confirm"
      [] kind = "confirm_sub" -> "ConfirmSubstitute"
      [] kind = "emsg" -> "Error"
      [] kind = "echo" -> "Echo"
      [] kind = "echomsg" -> "EchoMessage"
      [] kind = "echoerr" -> "EchoError"
      [] kind = "lua_error" -> "LuaError"
      [] kind = "rpc_error" -> "RpcError"
      [] kind = "return_prompt" -> "ReturnPrompt"
      [] kind = "quickfix" -> "QuickFix"
      [] kind = "search_count" -> "SearchCount"
      [] kind = "wmsg" -> "Warning"
      [] OTHER -> "Unknown"

parse_msg_show(msg_show_arguments) ==
    LET ex == extract_values(3, msg_show_arguments) IN
    IF ex.k # "ok" THEN ex
    ELSE LET rs == <<parse_string(ex.val[1]), parse_styled_content(ex.val[2]),
                     parse_bool(ex.val[3])>>
         IN
         IF ~AllOk(rs) THEN FirstBad(rs)
         ELSE Ok([type |-> "MessageShow", kind |-> MessageKind_parse(rs[1].val),
                  content |-> rs[2].val, replace_last |-> rs[3].val])

parse_msg_showmode(msg_showmode_arguments) ==
    LET ex == extract_values(1, msg_showmode_arguments) IN
    IF ex.k # "ok" THEN ex
    ELSE LET content == parse_styled_content(ex.val[1]) IN
         IF content.k # "ok" THEN content
         ELSE Ok([type |-> "MessageShowMode", content |-> content.val])

parse_msg_showcmd(msg_showcmd_arguments) ==
    LET ex == extract_values(1, msg_showcmd_arguments) IN
    IF ex.k # "ok" THEN ex
    ELSE LET content == parse_styled_content(ex.val[1]) IN
         IF content.k # "ok" THEN content
         ELSE Ok([type |-> "MessageShowCommand", content |-> content.val])

parse_msg_ruler(msg_ruler_arguments) ==
    LET ex == extract_values(1, msg_ruler_arguments) IN
    IF ex.k # "ok" THEN ex
    ELSE LET content == parse_styled_content(ex.val[1]) IN
         IF content.k # "ok" THEN content
         ELSE Ok([type |-> "MessageRuler", content |-> content.val])

parse_msg_history_entry(entry) ==
    LET arr == parse_array(entry) IN
    IF arr.k # "ok" THEN arr
    ELSE LET ex == extract_values(2, arr.val) IN
         IF ex.k # "ok" THEN ex
         ELSE LET kind == parse_string(ex.val[1])
                  content == parse_styled_content(ex.val[2])
              IN
              IF kind.k # "ok" THEN kind
              ELSE IF content.k # "ok" THEN content
              ELSE Ok(<<MessageKind_parse(kind.val), content.val>>)

parse_msg_history_show(msg_history_show_arguments) ==
    LET ex == extract_values(1, msg_history_show_arguments) IN
    IF ex.k # "ok" THEN ex
    ELSE LET entries == parse_array(ex.val[1]) IN
         IF entries.k # "ok" THEN entries
         ELSE LET rs == [i \in DOMAIN entries.val |->
                           parse_msg_history_entry(entries.val[i])]
              IN
              IF ~AllOk(rs) THEN FirstBad(rs)
              ELSE Ok([type |-> "MessageHistoryShow",
                       entries |-> [i \in DOMAIN rs |-> rs[i].val]])

----------------------------------------------------------------------------
(* The dispatcher.                                                         *)

\* FlagEvents whose suspend arm builds the set-redraw variant.
FlagEvents_SuspendSetsRedraw ==
    [mouse_on |-> "MouseOn", mouse_off |-> "MouseOff", busy_start |-> "BusyStart",
     busy_stop |-> "BusyStop", flush |-> "Flush", cmdline_hide |-> "CommandLineHide",
     cmdline_block_hide |-> "CommandLineBlockHide", msg_clear |-> "MessageClear",
     suspend |-> "NeovideSetRedraw"]

FlagEvents ==
    [mouse_on |-> "MouseOn", mouse_off |-> "MouseOff", busy_start |-> "BusyStart",
     busy_stop |-> "BusyStop", flush |-> "Flush", cmdline_hide |-> "CommandLineHide",
     cmdline_block_hide |-> "CommandLineBlockHide", msg_clear |-> "MessageClear",
     suspend |-> "Suspend"]

FlagNames == DOMAIN FlagEvents

StructuredNames ==
    {"set_title", "mode_info_set", "option_set", "mode_change", "grid_resize",
     "default_colors_set", "hl_attr_define", "grid_line", "grid_clear", "grid_destroy",
     "grid_cursor_goto", "grid_scroll", "win_pos", "win_float_pos", "win_external_pos",
     "win_hide", "win_close", "msg_set_pos", "win_viewport", "win_viewport_margins",
     "cmdline_show", "cmdline_pos", "cmdline_special_char", "cmdline_block_show",
     "cmdline_block_append", "msg_show", "msg_showmode", "msg_showcmd", "msg_ruler",
     "msg_history_show"}

\* The per-event parser the match of parse_redraw_event selects for a structured name.
parse_structured(name, p) ==
    CASE name = "set_title" -> parse_set_title(p)
      [] name = "mode_info_set" -> parse_mode_info_set(p)
      [] name = "option_set" -> parse_option_set(p)
      [] name = "mode_change" -> parse_mode_change(p)
      [] name = "grid_resize" -> parse_grid_resize(p)
      [] name = "default_colors_set" -> parse_default_colors(p)
      [] name = "hl_attr_define" -> parse_hl_attr_define(p)
      [] name = "grid_line" -> parse_grid_line(p)
      [] name = "grid_clear" -> parse_grid_clear(p)
      [] name = "grid_destroy" -> parse_grid_destroy(p)
      [] name = "grid_cursor_goto" -> parse_grid_cursor_goto(p)
      [] name = "grid_scroll" -> parse_grid_scroll(p)
      [] name = "win_pos" -> parse_win_pos(p)
      [] name = "win_float_pos" -> parse_win_float_pos(p)
      [] name = "win_external_pos" -> parse_win_external_pos(p)
      [] name = "win_hide" -> parse_win_hide(p)
      [] name = "win_close" -> parse_win_close(p)
      [] name = "msg_set_pos" -> parse_msg_set_pos(p)
      [] name = "win_viewport" -> parse_win_viewport(p)
      [] name = "win_viewport_margins" -> parse_win_viewport_margins(p)
      [] name = "cmdline_show" -> parse_cmdline_show(p)
      [] name = "cmdline_pos" -> parse_cmdline_pos(p)
      [] name = "cmdline_special_char" -> parse_cmdline_special_char(p)
      [] name = "cmdline_block_show" -> parse_cmdline_block_show(p)
      [] name = "cmdline_block_append" -> parse_cmdline_block_append(p)
      [] name = "msg_show" -> parse_msg_show(p)
      [] name = "msg_showmode" -> parse_msg_showmode(p)
      [] name = "msg_showcmd" -> parse_msg_showcmd(p)
      [] name = "msg_ruler" -> parse_msg_ruler(p)
      [] name = "msg_history_show" -> parse_msg_history_show(p)

\* possible_parsed_event with a last arm that rejects the names it does not know.
possible_parsed_event_RejectsUnknown(name, event_parameters) ==
    IF name \in FlagNames THEN Some(Ok([type |-> FlagEvents[name]]))
    ELSE IF name \in StructuredNames THEN Some(parse_structured(name, event_parameters))
    ELSE IF name = "set_icon" THEN None
    ELSE Some(Err("Format", Debug(event_parameters)))

\* possible_parsed_event: the match on event_name, None for set_icon and for any
\* name outside the table.
possible_parsed_event(name, event_parameters) ==
    IF name \in FlagNames THEN Some(Ok([type |-> FlagEvents[name]]))
    ELSE IF name \in StructuredNames THEN Some(parse_structured(name, event_parameters))
    ELSE None

\* event_error that reports the tuple and leaves the parser's own error out.
event_error_DropsInner(name, event_parameters_copy, parser_error) ==
    Err("Format", [fmt |-> "for event", event |-> name,
                   params |-> Debug(event_parameters_copy),
                   inner |-> Display(PE("Format", Debug(event_parameters_copy)))])

\* The error parse_redraw_event builds around a per-event parser's error.
event_error(name, event_parameters_copy, parser_error) ==
    Err("Format", [fmt |-> "for event", event |-> name,
                   params |-> Debug(event_parameters_copy),
                   inner |-> Display(parser_error)])

----------------------------------------------------------------------------
(* The payloads the decoder is run on.                                     *)

\* n trailing elements of a later protocol version.
Future(n) == [j \in 1..n |-> S("future")]

Prefixes(base, lo, hi) == {SubSeq(base, 1, n) : n \in lo..hi}

WithSlot(base, i, v) == [base EXCEPT ![i] = v]

FloatPosBase == <<I(2), Ext(7), S("NW"), I(1), F(0), F(15), B(TRUE), I(50), I(3), I(4), I(5)>>

ViewportBase == <<I(2), Ext(7), F(0), F(20), F(3), F(4), F(100), F(-2)>>

MsgSetPosBase == <<I(3), I(10), B(FALSE), S("-"), I(200), I(1)>>

WinFloatPosTuples ==
    Prefixes(FloatPosBase \o Future(MaxExtra), 7, 11 + MaxExtra)
    \cup {WithSlot(SubSeq(FloatPosBase, 1, 8), 3, v) :
            v \in {S("NE"), S("SW"), S("SE"), S("XX"), I(1), BadS}}
    \cup {WithSlot(SubSeq(FloatPosBase, 1, 8), 2, v) : v \in {Nil, I(1000)}}
    \cup {WithSlot(SubSeq(FloatPosBase, 1, 8), 1, S("g")),
          WithSlot(SubSeq(FloatPosBase, 1, 8), 7, I(1)),
          WithSlot(SubSeq(FloatPosBase, 1, 8), 8, I(-1)),
          WithSlot(SubSeq(FloatPosBase, 1, 9), 9, S("c")),
          WithSlot(FloatPosBase, 11, F(2)),
          WithSlot(FloatPosBase \o Future(1), 3, S("XX"))}

WinViewportTuples ==
    Prefixes(ViewportBase \o Future(MaxExtra), 5, 8 + MaxExtra)
    \cup {WithSlot(SubSeq(ViewportBase, 1, 6), 1, Nil),
          WithSlot(SubSeq(ViewportBase, 1, 6), 2, Nil),
          WithSlot(SubSeq(ViewportBase, 1, 6), 3, I(9)),
          WithSlot(SubSeq(ViewportBase, 1, 6), 4, B(TRUE)),
          WithSlot(SubSeq(ViewportBase, 1, 7), 7, I(100)),
          WithSlot(SubSeq(ViewportBase, 1, 7), 7, Nil),
          WithSlot(ViewportBase, 8, S("d"))}

MsgSetPosTuples ==
    Prefixes(MsgSetPosBase \o Future(MaxExtra), 3, 6 + MaxExtra)
    \cup {WithSlot(SubSeq(MsgSetPosBase, 1, 4), 2, I(-1)),
          WithSlot(SubSeq(MsgSetPosBase, 1, 4), 3, I(0)),
          WithSlot(SubSeq(MsgSetPosBase, 1, 4), 4, BadS),
          WithSlot(SubSeq(MsgSetPosBase, 1, 5), 5, S("z")),
          WithSlot(MsgSetPosBase, 6, Nil)}

CursorGotoTuples ==
    {<<g, r, c>> : g \in {I(1), I(U64Max)}, r \in {I(-3), I(0), I(7)}, c \in {I(5), I(-1)}}
    \cup {<<I(1), I(I64Max), I(-I64Max - 1)>>, <<I(-1), I(0), I(0)>>,
          <<S("g"), I(0), I(0)>>, <<I(1), I(U64Max), I(0)>>, <<I(1), F(1), I(0)>>,
          <<I(1), I(0), Nil>>, <<I(1), I(2)>>, <<I(1), I(-3), I(5), S("future")>>}

GridLineCells ==
    {<<>>,
     <<A(<<S("H"), I(7)>>), A(<<S("i")>>), A(<<S(" "), I(7), I(78)>>)>>,
     <<A(<<S("x")>>)>>,
     <<A(<<>>)>>,
     <<A(<<S("H"), I(7)>>), A(<<>>)>>,
     <<A(<<I(5), I(7)>>)>>,
     <<A(<<S("a"), S("x")>>)>>,
     <<A(<<S("a"), I(1), I(-1)>>)>>,
     <<A(<<BadS, I(1), I(2), S("future")>>)>>,
     <<I(5)>>}

GridLineTuples ==
    {<<I(1), I(0), I(0), A(cells)>> : cells \in GridLineCells}
    \cup {<<I(1), I(0), I(0)>>, <<I(1), I(0), I(0), I(9)>>, <<I(1), Nil, I(0), A(<<>>)>>}

StyledContents ==
    {A(<<>>), A(<<A(<<I(1), S("a")>>)>>), A(<<A(<<I(1), S("a")>>), A(<<I(2), S("b")>>)>>),
     A(<<A(<<I(1)>>)>>), A(<<A(<<I(1), S("a")>>), A(<<>>)>>), A(<<A(<<S("s"), S("a")>>)>>),
     A(<<A(<<I(1), I(5)>>)>>), A(<<I(3)>>), A(<<A(<<I(1), S("a"), S("future")>>)>>), I(5)}

\* A well-formed styled content and three malformed ones, for the events that carry
\* one among other arguments.
FewContents == {A(<<A(<<I(1), S("a")>>)>>), A(<<A(<<I(1)>>)>>), I(5)}

OptionSetTuples ==
    {<<S("arabicshape"), B(TRUE)>>, <<S("arabicshape"), I(1)>>, <<S("guifont"), S("Fira")>>,
     <<S("linespace"), F(1)>>, <<S("linespace"), I(1)>>, <<S("linespace"), S("1")>>, <<S("pumblend"), I(10)>>,
     <<S("ext_foo"), Nil>>, <<S("ext_foo"), A(<<I(1)>>)>>, <<S("ext_foo")>>,
     <<BadS, F(1)>>, <<S("ARABICSHAPE"), M(<<>>)>>, <<S("ext_foo"), B(TRUE), S("future")>>,
     <<I(1), I(1)>>}

ModeChangeTuples ==
    {<<S("normal"), I(0)>>, <<S("insert"), I(1)>>, <<S("terminal"), I(2)>>,
     <<S("Normal"), I(3)>>, <<BadS, I(0)>>, <<S("terminal"), I(-1)>>,
     <<S("normal"), I(-1)>>, <<I(1), I(0)>>, <<S("normal")>>}

ModeInfoSetTuples ==
    {<<B(TRUE), A(<<>>)>>,
     <<B(TRUE), A(<<M(<<<<S("cursor_shape"), S("block")>>, <<S("cell_percentage"), I(25)>>,
                       <<S("attr_id"), I(4)>>>>),
                    M(<<<<S("blinkon"), I(500)>>>>)>>)>>,
     <<Nil, A(<<M(<<<<S("name"), S("normal")>>, <<S("cursor_shape"), S("wedge")>>>>)>>)>>,
     <<B(TRUE), A(<<M(<<<<I(1), I(2)>>>>)>>)>>,
     <<B(FALSE), A(<<M(<<<<S("blinkoff"), I(3)>>, <<S("mouse_shape"), I(0)>>,
                        <<BadS, A(<<>>)>>, <<S("blinkoff"), I(4)>>, <<S("id"), Nil>>>>),
                     M(<<<<S("short_name"), S("n")>>>>)>>)>>,
     <<B(TRUE), A(<<M(<<<<S("attr_id"), I(1)>>, <<Nil, S("x")>>>>)>>)>>,
     <<B(TRUE), A(<<M(<<<<S("blinkwait"), S("x")>>>>)>>)>>,
     <<B(TRUE), A(<<I(1)>>)>>,
     <<B(TRUE)>>}

HlAttrDefineTuples ==
    {<<I(1), M(<<>>), M(<<>>), A(<<>>)>>,
     <<I(2), M(<<<<S("foreground"), I(16711680)>>, <<S("bold"), B(TRUE)>>,
                 <<S("undercurl"), B(TRUE)>>, <<S("blend"), I(300)>>>>), Nil, I(0)>>,
     <<I(3), M(<<<<S("future_attr"), I(1)>>, <<I(9), B(TRUE)>>,
                 <<S("underline"), B(FALSE)>>, <<S("italic"), I(1)>>>>), M(<<>>), A(<<>>)>>,
     <<I(4), M(<<<<BadS, B(TRUE)>>>>), M(<<>>), A(<<>>)>>,
     <<I(5), M(<<<<S("background"), I(-1)>>>>), M(<<>>), A(<<>>)>>,
     <<I(7), M(<<<<S("underline"), B(TRUE)>>, <<S("undercurl"), B(TRUE)>>>>), M(<<>>), A(<<>>)>>,
     <<I(7), M(<<<<S("undercurl"), B(TRUE)>>, <<S("underline"), B(TRUE)>>>>), M(<<>>), A(<<>>)>>,
     <<I(8), M(<<<<S("underdotted"), B(TRUE)>>, <<S("underlineline"), B(FALSE)>>,
                 <<S("underdash"), I(1)>>>>), M(<<>>), A(<<>>)>>,
     <<I(9), M(<<<<S("underdouble"), B(TRUE)>>, <<S("underdashed"), B(TRUE)>>,
                 <<S("undercurl"), B(FALSE)>>, <<S("bold"), B(TRUE)>>>>), M(<<>>), A(<<>>)>>,
     <<I(10), M(<<<<S("reverse"), S("yes")>>, <<S("special"), F(1)>>,
                  <<S("blend"), B(TRUE)>>, <<S("italic"), B(TRUE)>>>>), M(<<>>), A(<<>>)>>,
     <<I(6), A(<<>>), M(<<>>), A(<<>>)>>,
     <<I(-1), M(<<>>), M(<<>>), A(<<>>)>>,
     <<I(1), M(<<>>), M(<<>>)>>}

\* The parameter tuples sampled for an event name.
Tuples(name) ==
    CASE name \in FlagNames -> {<<>>, <<I(1)>>}
      [] name = "set_title" ->
           {<<S("Hello")>>, <<BadS>>, <<I(1)>>, <<>>, <<S("a"), S("future")>>}
      [] name = "mode_info_set" -> ModeInfoSetTuples
      [] name = "option_set" -> OptionSetTuples
      [] name = "mode_change" -> ModeChangeTuples
      [] name = "grid_resize" ->
           {<<I(1), I(80), I(24)>>, <<I(1), I(80)>>, <<I(1), I(-80), I(24)>>,
            <<I(1), I(80), I(24), S("future")>>, <<S("g"), I(80), I(24)>>}
      [] name = "default_colors_set" ->
           {<<I(16711680), I(65280), I(255), I(0), I(0)>>,
            <<I(16711680), I(65280), I(255), Nil, S("t")>>,
            <<I(-1), I(65280), I(255), I(0), I(0)>>, <<I(16711680), I(65280), I(255)>>,
            <<I(16711680 + 16777216), I(16711680), I(16711681), I(0), I(0)>>,
            <<I(255), I(255 + 256), I(255 + 65536), I(0), I(0)>>,
            <<I(U64Max), I(16777215), I(0), I(0), I(0)>>,
            <<I(16777216), I(0), I(2 * 16777216 + 1), I(0), I(0)>>}
      [] name = "hl_attr_define" -> HlAttrDefineTuples
      [] name = "grid_line" -> GridLineTuples
      [] name \in {"grid_clear", "grid_destroy", "win_hide", "win_close"} ->
           {<<I(2)>>, <<>>, <<S("g")>>}
      [] name = "grid_cursor_goto" -> CursorGotoTuples
      [] name = "grid_scroll" ->
           {<<I(1), I(0), I(24), I(0), I(80), I(-2), I(0)>>,
            <<I(1), I(0), I(24), I(0), I(80), I(-2)>>,
            <<I(1), I(0), I(24), I(0), I(-80), I(2), I(0)>>}
      [] name \in {"win_pos", "win_viewport_margins"} ->
           {<<I(2), Ext(7), I(0), I(1), I(80), I(24)>>, <<I(2), Nil, I(0), I(1), I(80), I(24)>>,
            <<I(2), Ext(7), I(0), I(1), I(80)>>, <<I(2), Ext(7), I(0), I(1), I(80), F(2)>>}
      [] name = "win_float_pos" -> WinFloatPosTuples
      [] name = "win_external_pos" -> {<<I(2), Ext(7)>>, <<I(2), Nil>>, <<I(2)>>, <<Nil, Ext(7)>>}
      [] name = "msg_set_pos" -> MsgSetPosTuples
      [] name = "win_viewport" -> WinViewportTuples
      [] name = "cmdline_show" ->
           {<<c, I(0), S(":"), S(""), I(0), I(1)>> : c \in FewContents}
           \cup {<<A(<<>>), I(0), S(":"), S(""), I(0)>>}
      [] name = "cmdline_pos" -> {<<I(3), I(1)>>, <<I(3)>>, <<I(3), B(TRUE)>>}
      [] name = "cmdline_special_char" ->
           {<<S("^"), B(TRUE), I(1)>>, <<S("^"), B(TRUE)>>, <<S("^"), I(1), I(1)>>}
      [] name = "cmdline_block_show" ->
           {<<A(<<c>>)>> : c \in FewContents} \cup {<<A(<<>>)>>, <<>>, <<I(1)>>}
      [] name = "msg_show" ->
           {<<S("emsg"), c, B(FALSE)>> : c \in FewContents}
           \cup {<<S("future_kind"), A(<<>>), B(TRUE)>>, <<I(1), A(<<>>), B(TRUE)>>}
      [] name \in {"cmdline_block_append", "msg_showcmd", "msg_ruler"} ->
           {<<c>> : c \in FewContents} \cup {<<>>}
      [] name = "msg_showmode" -> {<<c>> : c \in StyledContents} \cup {<<>>}
      [] name = "msg_history_show" ->
           {<<A(<<A(<<S("echo"), c>>)>>)>> : c \in FewContents}
           \cup {<<A(<<>>)>>, <<A(<<A(<<S("echo")>>)>>)>>, <<A(<<I(1)>>)>>, <<>>}
      [] OTHER -> {<<>>, <<I(1), S("x")>>}

\* Event names outside the dispatch table.
UnknownNames == {"win_extmark", "tabline_update"}

\* Elements that may follow an event name without being arrays.
NonArrays == {I(7)}

\* What may follow the event name `name` in a payload.
Elements(name) == {A(t) : t \in Tuples(name)} \cup NonArrays

SeqsUpTo(X, n) == UNION {[1..k -> X] : k \in 0..n}

NamedPayloads(nameValue, name) ==
    {A(<<nameValue>> \o es) : es \in SeqsUpTo(Elements(name), MaxTuples)}

Payloads ==
    {I(3), Nil, A(<<>>)}
    \cup UNION {NamedPayloads(S(n), n) :
                  n \in FlagNames \cup StructuredNames \cup UnknownNames \cup {"set_icon"}}
    \cup NamedPayloads(BadS, "U+FFFD")
    \cup NamedPayloads(I(5), "")

----------------------------------------------------------------------------
(* parse_redraw_event as a state machine.                                  *)

NoResult == [k |-> "none"]

Init ==
    /\ event_value \in Payloads
    /\ pc = "start"
    /\ event_name = ""
    /\ event_contents = <<>>
    /\ parsed_events = <<>>
    /\ result = NoResult

\* return: the locals are dropped and the caller gets r.
Return(r) ==
    /\ pc' = "done"
    /\ result' = r
    /\ event_contents' = <<>>
    /\ parsed_events' = <<>>
    /\ UNCHANGED <<event_value, event_name>>

\* Lines 995-1002: the payload as an array, its first element as the event name.
Begin ==
    /\ pc = "start"
    /\ LET contents == parse_array(event_value) IN
       IF contents.k # "ok" THEN Return(contents)
       ELSE IF contents.val = <<>> THEN Return(Err("Format", Debug(<<>>)))
       ELSE LET name == parse_string(Head(contents.val)) IN
            IF name.k # "ok" THEN Return(name)
            ELSE /\ pc' = "loop"
                 /\ event_name' = name.val
                 /\ event_contents' = Tail(contents.val)
                 /\ UNCHANGED <<event_value, parsed_events, result>>

\* Iterate that drops a tuple its parser rejects and goes on with the next one.
Iterate_SkipsFailures ==
    /\ pc = "loop"
    /\ event_contents # <<>>
    /\ LET event_parameters == parse_array(Head(event_contents)) IN
       IF event_parameters.k # "ok" THEN Return(event_parameters)
       ELSE LET possible == possible_parsed_event(event_name, event_parameters.val) IN
            IF possible.some /\ possible.val.k = "panic"
            THEN Return(possible.val)
            ELSE /\ parsed_events' =
                      IF possible.some /\ possible.val.k = "ok"
                      THEN Append(parsed_events, possible.val.val)
                      ELSE parsed_events
                 /\ event_contents' = Tail(event_contents)
                 /\ UNCHANGED <<event_value, pc, event_name, result>>

\* Iterate that puts each new event in front of the ones parsed before.
Iterate_Prepends ==
    /\ pc = "loop"
    /\ event_contents # <<>>
    /\ LET event_parameters == parse_array(Head(event_contents)) IN
       IF event_parameters.k # "ok" THEN Return(event_parameters)
       ELSE LET possible == possible_parsed_event(event_name, event_parameters.val) IN
            IF possible.some /\ possible.val.k = "err"
            THEN Return(event_error(event_name, event_parameters.val, possible.val.err))
            ELSE IF possible.some /\ possible.val.k = "panic"
            THEN Return(possible.val)
            ELSE /\ parsed_events' =
                      IF possible.some
                      THEN <<possible.val.val>> \o parsed_events
                      ELSE parsed_events
                 /\ event_contents' = Tail(event_contents)
                 /\ UNCHANGED <<event_value, pc, event_name, result>>

\* Iterate that goes past a failing tuple while elements remain, so that the
\* error returned is the one of the last tuple.
Iterate_ReportsLastFailure ==
    /\ pc = "loop"
    /\ event_contents # <<>>
    /\ LET event_parameters == parse_array(Head(event_contents)) IN
       IF event_parameters.k # "ok" THEN Return(event_parameters)
       ELSE LET possible == possible_parsed_event(event_name, event_parameters.val) IN
            IF possible.some /\ possible.val.k = "err" /\ Len(event_contents) = 1
            THEN Return(event_error(event_name, event_parameters.val, possible.val.err))
            ELSE IF possible.some /\ possible.val.k = "panic"
            THEN Return(possible.val)
            ELSE /\ parsed_events' =
                      IF possible.some /\ possible.val.k = "ok"
                      THEN Append(parsed_events, possible.val.val)
                      ELSE parsed_events
                 /\ event_contents' = Tail(event_contents)
                 /\ UNCHANGED <<event_value, pc, event_name, result>>

\* Lines 1004-1062: one turn of the loop over the elements after the name.
Iterate ==
    /\ pc = "loop"
    /\ event_contents # <<>>
    /\ LET event_parameters == parse_array(Head(event_contents)) IN
       IF event_parameters.k # "ok" THEN Return(event_parameters)
       ELSE LET possible == possible_parsed_event(event_name, event_parameters.val) IN
            IF possible.some /\ possible.val.k = "err"
            THEN Return(event_error(event_name, event_parameters.val, possible.val.err))
            ELSE IF possible.some /\ possible.val.k = "panic"
            THEN Return(possible.val)
            ELSE /\ parsed_events' =
                      IF possible.some
                      THEN Append(parsed_events, possible.val.val)
                      ELSE parsed_events
                 /\ event_contents' = Tail(event_contents)
                 /\ UNCHANGED <<event_value, pc, event_name, result>>

\* Finish that takes a flag name with nothing after it for one event.
Finish_FlagWithoutTuple ==
    /\ pc = "loop"
    /\ event_contents = <<>>
    /\ Return(IF event_name \in FlagNames /\ parsed_events = <<>>
              THEN Ok(<<[type |-> FlagEvents[event_name]]>>)
              ELSE Ok(parsed_events))

\* Line 1064: the loop is over.
Finish ==
    /\ pc = "loop"
    /\ event_contents = <<>>
    /\ Return(Ok(parsed_events))

Next == Begin \/ Iterate \/ Finish

Spec == Init /\ [][Next]_vars

----------------------------------------------------------------------------
(* Vocabulary of the properties.                                           *)

\* The payload is an array that starts with an event name.
Named ==
    /\ event_value.t = "arr"
    /\ event_value.a # <<>>
    /\ Head(event_value.a).t = "str"

\* The elements after the event name, and their number.
Elems == Tail(event_value.a)

N == Len(Elems)

Done == pc = "done" /\ Named

Recognized == event_name \in FlagNames \cup StructuredNames

\* What the i-th element yields taken alone: an Array error when it is no array,
\* "skip" when the name has no parser, else its parser's outcome.
Outcome(i) ==
    IF Elems[i].t # "arr" THEN Err("Array", Elems[i])
    ELSE IF Recognized THEN possible_parsed_event(event_name, Elems[i].a).val
    ELSE [k |-> "skip"]

\* Element i is the earliest one that does not parse.
FirstNotOk(i) ==
    /\ Outcome(i).k \notin {"ok", "skip"}
    /\ \A j \in 1..(i - 1) : Outcome(j).k \in {"ok", "skip"}

IsTuple(i) == Elems[i].t = "arr"

IsFormatError(r) == r.k = "err" /\ r.err.kind = "Format"

----------------------------------------------------------------------------
(* C1 -- all or nothing.                                                   *)

\* C1: for a recognized event name, a parameter tuple that fails to parse makes
\* the call return an error: the result is never a sequence of events (partial or
\* not), the error carries no events, and the events parsed so far are dropped.
C1_AllOrNothing ==
    (Done /\ Recognized) =>
        /\ (\E i \in 1..N : Outcome(i).k = "err") => result.k # "ok"
        /\ \A i \in 1..N :
              (FirstNotOk(i) /\ Outcome(i).k = "err") =>
                  /\ result.k = "err"
                  /\ DOMAIN result = {"k", "err"}
                  /\ parsed_events = <<>>

\* A well-formed tuple was parsed, the next one failed, and the call returned an error.
C1_Witness ==
    /\ Done /\ Recognized /\ N = 2
    /\ IsTuple(1) /\ Outcome(1).k = "ok"
    /\ IsTuple(2) /\ Outcome(2).k = "err"
    /\ result.k = "err"

----------------------------------------------------------------------------
(* C2 -- one event per tuple, in input order.                              *)

\* C2: for a recognized event name other than set_icon and N tuples that each
\* parse, the call returns exactly N events and the i-th is the parse of the i-th
\* tuple; a flag name followed by N tuples returns N copies of its variant.
C2_OnePerTupleInOrder ==
    (Done /\ Recognized /\ \A i \in 1..N : IsTuple(i) /\ Outcome(i).k = "ok") =>
        /\ result.k = "ok"
        /\ Len(result.val) = N
        /\ \A i \in 1..N : result.val[i] = Outcome(i).val
        /\ event_name \in FlagNames =>
              \A i \in 1..N : result.val[i] = [type |-> FlagEvents[event_name]]
        /\ event_value = A(<<S("grid_resize"), A(<<I(1), I(80), I(24)>>)>>) =>
              result.val = <<[type |-> "Resize", grid |-> 1, width |-> 80, height |-> 24]>>

\* Two tuples that parse to different events were decoded.
C2_Witness ==
    /\ Done /\ event_name \in StructuredNames /\ N = 2
    /\ IsTuple(1) /\ IsTuple(2)
    /\ result.k = "ok" /\ Len(result.val) = 2
    /\ result.val[1] # result.val[2]

----------------------------------------------------------------------------
(* C3 -- the payload ["flush"].                                            *)

FlushOnly == A(<<S("flush")>>)

\* C3 as stated: decoding ["flush"] returns exactly one Flush event.
C3_FlushAloneYieldsFlush ==
    (Done /\ event_value = FlushOnly) => result = Ok(<<[type |-> "Flush"]>>)

\* C3 as amended: decoding ["flush"], the name with no parameter tuple after it,
\* returns the empty sequence without error; exactly one Flush event is returned
\* for ["flush", []], the name followed by one parameter tuple.
C3_FlushPerTuple ==
    /\ (Done /\ event_value = FlushOnly) => result = Ok(<<>>)
    /\ (Done /\ event_value = A(<<S("flush"), A(<<>>)>>)) =>
          result = Ok(<<[type |-> "Flush"]>>)

\* ["flush"] was decoded.
C3_Witness == Done /\ event_value = FlushOnly /\ result.k = "ok"

----------------------------------------------------------------------------
(* C4 -- names without a parser.                                           *)

\* C4 as stated: for set_icon and for every name outside the dispatch table the
\* call returns the empty sequence without error, whatever follows the name.
C4_IgnoredWhateverFollows ==
    (Done /\ ~Recognized) => result = Ok(<<>>)

\* C4 as amended: for set_icon and for every name outside the dispatch table the
\* call returns the empty sequence without error when every element after the name
\* is an array, whatever the arrays hold; an element that is no array makes the
\* call return the Array error of the earliest such element.
C4_IgnoredWhenArrays ==
    (Done /\ ~Recognized) =>
        /\ (\A i \in 1..N : IsTuple(i)) => result = Ok(<<>>)
        /\ \A i \in 1..N :
              (~IsTuple(i) /\ \A j \in 1..(i - 1) : IsTuple(j)) =>
                  result = Err("Array", Elems[i])

\* A name outside the table was followed by a non-empty array and decoded to nothing.
C4_Witness ==
    /\ Done /\ ~Recognized /\ event_name # "set_icon" /\ N >= 1
    /\ \A i \in 1..N : IsTuple(i)
    /\ \E i \in 1..N : Elems[i].a # <<>>
    /\ result = Ok(<<>>)

----------------------------------------------------------------------------
(* C5, C6 -- the optional trailing slots.                                  *)

OptionalNames == {"win_float_pos", "win_viewport", "msg_set_pos"}

\* REQ and OPT of the three events, the wire type of every slot and the fields
\* the optional slots are decoded into.
Arity ==
    [win_float_pos |-> [req |-> 8, opt |-> 3], win_viewport |-> [req |-> 6, opt |-> 2],
     msg_set_pos |-> [req |-> 4, opt |-> 2]]

SlotTypes ==
    [win_float_pos |-> <<"u64", "any", "anchor", "u64", "f64", "f64", "bool", "u64",
                         "u64", "u64", "u64">>,
     win_viewport |-> <<"u64", "any", "f64", "f64", "f64", "f64", "f64", "f64">>,
     msg_set_pos |-> <<"u64", "u64", "bool", "str", "u64", "u64">>]

OptionalFields ==
    [win_float_pos |-> <<"comp_index", "screen_row", "screen_col">>,
     win_viewport |-> <<"line_count", "scroll_delta">>,
     msg_set_pos |-> <<"z_index", "comp_index">>]

HasType(v, ty) ==
    CASE ty = "u64" -> v.t = "int" /\ v.i >= 0
      [] ty = "f64" -> v.t \in {"f64", "int"}
      [] ty = "bool" -> v.t = "bool"
      [] ty = "str" -> v.t = "str"
      [] ty = "anchor" -> v.t = "str" /\ v.utf8 /\ v.s \in {"NW", "NE", "SW", "SE"}
      [] ty = "any" -> TRUE

\* The number or float a well-typed optional slot holds.
Decoded(v) == IF v.t = "int" THEN v.i ELSE v.f

ReqOf(name) == Arity[name].req

MaxOf(name) == Arity[name].req + Arity[name].opt

\* The first MaxOf(name) elements of t, at most, have the types of their slots.
WellTyped(name, t) ==
    \A i \in 1..Len(t) : i <= MaxOf(name) => HasType(t[i], SlotTypes[name][i])

Truncated(name, t) == SubSeq(t, 1, MaxOf(name))

\* C5 as stated: a well-typed tuple of win_float_pos, win_viewport or msg_set_pos
\* with more than REQ+OPT elements decodes to the event of its first REQ+OPT elements.
C5_ExtrasDiscarded ==
    (/\ Done /\ event_name \in OptionalNames /\ N = 1 /\ IsTuple(1)
     /\ Len(Elems[1].a) > MaxOf(event_name)
     /\ WellTyped(event_name, Elems[1].a)) =>
        /\ result.k = "ok"
        /\ result.val = <<parse_structured(event_name,
                                           Truncated(event_name, Elems[1].a)).val>>

\* Every element is a well-typed tuple of REQ to REQ+OPT elements.
AllInRange ==
    \A i \in 1..N :
        /\ IsTuple(i)
        /\ Len(Elems[i].a) \in ReqOf(event_name)..MaxOf(event_name)
        /\ WellTyped(event_name, Elems[i].a)

\* C6: a well-typed tuple of L elements, REQ <= L <= REQ+OPT, parses, and its k-th
\* optional field is present exactly when L > REQ+k and then holds the decoded
\* element at index REQ+k; with L = REQ every optional field is absent.
C6_OptionalSlots ==
    (Done /\ event_name \in OptionalNames /\ AllInRange) =>
        /\ result.k = "ok"
        /\ Len(result.val) = N
        /\ \A i \in 1..N : \A k \in 0..(Arity[event_name].opt - 1) :
              LET t == Elems[i].a
                  field == result.val[i][OptionalFields[event_name][k + 1]]
              IN
              IF Len(t) > ReqOf(event_name) + k
              THEN field = Some(Decoded(t[ReqOf(event_name) + k + 1]))
              ELSE field = None

\* A win_viewport tuple with its first optional slot only was decoded.
C6_Witness ==
    /\ Done /\ event_name = "win_viewport" /\ N = 1 /\ AllInRange
    /\ Len(Elems[1].a) = 7
    /\ result.k = "ok"
    /\ result.val[1].line_count = Some(100)
    /\ result.val[1].scroll_delta = None

----------------------------------------------------------------------------
(* C7 -- structural failures are Format errors.                            *)

\* The number of required elements of every structured event's tuple.
Required ==
    [set_title |-> 1, mode_info_set |-> 2, option_set |-> 2, mode_change |-> 2,
     grid_resize |-> 3, default_colors_set |-> 5, hl_attr_define |-> 4, grid_line |-> 4,
     grid_clear |-> 1, grid_destroy |-> 1, grid_cursor_goto |-> 3, grid_scroll |-> 7,
     win_pos |-> 6, win_float_pos |-> 8, win_external_pos |-> 2, win_hide |-> 1,
     win_close |-> 1, msg_set_pos |-> 4, win_viewport |-> 6, win_viewport_margins |-> 6,
     cmdline_show |-> 6, cmdline_pos |-> 2, cmdline_special_char |-> 3,
     cmdline_block_show |-> 1, cmdline_block_append |-> 1, msg_show |-> 3,
     msg_showmode |-> 1, msg_showcmd |-> 1, msg_ruler |-> 1, msg_history_show |-> 1]

\* The events whose only argument is one styled content.
ContentNames == {"cmdline_block_append", "msg_showmode", "msg_showcmd", "msg_ruler"}

IsU64(v) == v.t = "int" /\ v.i >= 0

\* The tuple t has fewer elements than its event requires.
TooShort(t) == event_name \in StructuredNames /\ Len(t) < Required[event_name]

\* t is a grid_line tuple, sound up to a cell that is an empty array.
EmptyCell(t) ==
    /\ event_name = "grid_line" /\ Len(t) >= 4
    /\ IsU64(t[1]) /\ IsU64(t[2]) /\ IsU64(t[3])
    /\ t[4].t = "arr"
    /\ \E c \in 1..Len(t[4].a) :
          /\ t[4].a[c] = A(<<>>)
          /\ \A d \in 1..(c - 1) : parse_grid_line_cell(t[4].a[d]).k = "ok"

\* t holds one styled content, sound up to a pair of fewer than two elements.
ShortPair(t) ==
    /\ event_name \in ContentNames /\ Len(t) >= 1
    /\ t[1].t = "arr"
    /\ \E c \in 1..Len(t[1].a) :
          /\ t[1].a[c].t = "arr" /\ Len(t[1].a[c].a) < 2
          /\ \A d \in 1..(c - 1) : parse_styled_pair(t[1].a[d]).k = "ok"

\* The message of the Format error extract_values and parse_grid_line_cell raise
\* on the array `dump`.
ShapeMessage(dump) == Display(PE("Format", Debug(dump)))

\* C7: a payload that is an empty array, a tuple shorter than its event requires,
\* a grid_line cell that is an empty array and a styled-content pair of fewer than
\* two elements each make the call return a Format error (whose message, for the
\* last three, holds the Format error of the array that is too short).
C7_StructuralIsFormat ==
    /\ (pc = "done" /\ event_value = A(<<>>)) => IsFormatError(result)
    /\ (Done /\ Recognized) =>
          \A i \in 1..N : (FirstNotOk(i) /\ IsTuple(i)) =>
              LET t == Elems[i].a IN
              /\ TooShort(t) =>
                    IsFormatError(result) /\ result.err.value.inner = ShapeMessage(t)
              /\ EmptyCell(t) =>
                    IsFormatError(result) /\ result.err.value.inner = ShapeMessage(<<>>)
              /\ ShortPair(t) =>
                    /\ IsFormatError(result)
                    /\ result.err.value.inner.prefix = DisplayPrefix("Format")

\* A grid_line tuple with an empty cell after a sound one was rejected.
C7_Witness ==
    /\ Done /\ event_name = "grid_line" /\ N = 1 /\ IsTuple(1)
    /\ EmptyCell(Elems[1].a)
    /\ Len(Elems[1].a[4].a) = 2
    /\ IsFormatError(result)

----------------------------------------------------------------------------
(* C8, C9 -- what the returned error holds.                                *)

\* C8 as stated: when the per-event parser fails with an error of kind K, the
\* error the call returns has kind K and its message contains the event name.
C8_KindKept ==
    (Done /\ Recognized) =>
        \A i \in 1..N : (FirstNotOk(i) /\ IsTuple(i) /\ Outcome(i).k = "err") =>
            /\ result.k = "err"
            /\ result.err.kind = Outcome(i).err.kind
            /\ result.err.value.event = event_name

\* C8 as amended: when the per-event parser fails with an error of kind K, the
\* error the call returns has kind Format whatever K is; its message contains the
\* event name and the message of the parser's error, which starts with the text
\* that names K (for a win_float_pos anchor outside NW, NE, SW, SE: "invalid
\* window anchor format " and the anchor string).
C8_KindInMessage ==
    (Done /\ Recognized) =>
        \A i \in 1..N : (FirstNotOk(i) /\ IsTuple(i) /\ Outcome(i).k = "err") =>
            /\ IsFormatError(result)
            /\ result.err.value.event = event_name
            /\ result.err.value.inner.prefix = DisplayPrefix(Outcome(i).err.kind)
            /\ result.err.value.inner.arg = Outcome(i).err.value
            /\ (/\ event_name = "win_float_pos"
                /\ Elems[i].a = WithSlot(SubSeq(FloatPosBase, 1, 8), 3, S("XX"))) =>
                  /\ result.err.value.inner.prefix = "invalid window anchor format "
                  /\ result.err.value.inner.arg = S("XX")

\* A win_float_pos tuple with the anchor "XX" was rejected.
C8_Witness ==
    /\ Done /\ event_name = "win_float_pos" /\ N = 1 /\ IsTuple(1)
    /\ Elems[1].a = WithSlot(SubSeq(FloatPosBase, 1, 8), 3, S("XX"))
    /\ Outcome(1).err.kind = "WindowAnchor"
    /\ result.k = "err"

\* C9: for a recognized event name, the error of the earliest parameter tuple that
\* fails is the one returned, whatever follows that tuple, and it holds the event
\* name, the debug dump of that tuple and the message of the parser's error.
C9_EarliestFailureWrapped ==
    (Done /\ Recognized) =>
        \A i \in 1..N : (FirstNotOk(i) /\ IsTuple(i) /\ Outcome(i).k = "err") =>
            result = Err("Format", [fmt |-> "for event", event |-> event_name,
                                    params |-> Debug(Elems[i].a),
                                    inner |-> Display(Outcome(i).err)])

\* Two tuples fail in different ways and the call returned the error of the first.
C9_Witness ==
    /\ Done /\ Recognized /\ N = 2
    /\ IsTuple(1) /\ Outcome(1).k = "err"
    /\ IsTuple(2) /\ Outcome(2).k = "err"
    /\ Outcome(1) # Outcome(2)
    /\ result.k = "err"
    /\ result.err.value.params = Debug(Elems[1].a)

----------------------------------------------------------------------------
(* C10 -- grid_cursor_goto clamps.                                         *)

IsI64(v) == v.t = "int" /\ v.i >= -I64Max - 1 /\ v.i <= I64Max

Max0(x) == IF x > 0 THEN x ELSE 0

\* Every element is a grid_cursor_goto tuple of a non-negative integer grid and
\* signed-integer row and column.
AllCursorGoto ==
    \A i \in 1..N :
        /\ IsTuple(i) /\ Len(Elems[i].a) >= 3
        /\ IsU64(Elems[i].a[1]) /\ IsI64(Elems[i].a[2]) /\ IsI64(Elems[i].a[3])

\* C10: grid_cursor_goto with a non-negative integer grid and signed-integer row
\* and column succeeds with CursorGoto of that grid, row = max(row, 0) and
\* column = max(column, 0).
C10_CursorClamped ==
    (Done /\ event_name = "grid_cursor_goto" /\ AllCursorGoto) =>
        /\ result.k = "ok"
        /\ Len(result.val) = N
        /\ \A i \in 1..N :
              result.val[i] = [type |-> "CursorGoto", grid |-> Elems[i].a[1].i,
                               row |-> Max0(Elems[i].a[2].i),
                               column |-> Max0(Elems[i].a[3].i)]

\* ["grid_cursor_goto", [1, -3, 5]] was decoded to CursorGoto(1, 0, 5).
C10_Witness ==
    /\ Done /\ event_value = A(<<S("grid_cursor_goto"), A(<<I(1), I(-3), I(5)>>)>>)
    /\ result = Ok(<<[type |-> "CursorGoto", grid |-> 1, row |-> 0, column |-> 5]>>)

----------------------------------------------------------------------------
(* C11, C12 -- the cells of grid_line.                                     *)

\* C11 as stated: in every GridLine event a successful call returns with a
\* non-empty cell list, the first cell has highlight_id present.
C11_FirstCellHasHighlight ==
    (Done /\ result.k = "ok") =>
        \A i \in 1..Len(result.val) :
            (result.val[i].type = "GridLine" /\ result.val[i].cells # <<>>) =>
                result.val[i].cells[1].highlight_id.some

\* The cell c is an array of a string, then at most a highlight id and a repeat
\* count that are unsigned integers, then anything.
SoundCell(c) ==
    /\ c.t = "arr" /\ Len(c.a) >= 1
    /\ c.a[1].t = "str"
    /\ Len(c.a) >= 2 => IsU64(c.a[2])
    /\ Len(c.a) >= 3 => IsU64(c.a[3])

\* The tuple t is a grid_line tuple whose cells are arrays that start with their
\* text or, for NoText, with a value that is no string.
GridLineOf(t, NoText) ==
    /\ Len(t) >= 4
    /\ IsU64(t[1]) /\ IsU64(t[2]) /\ IsU64(t[3])
    /\ t[4].t = "arr"
    /\ \A c \in 1..Len(t[4].a) :
          \/ SoundCell(t[4].a[c])
          \/ /\ NoText
             /\ t[4].a[c].t = "arr" /\ Len(t[4].a[c].a) >= 1
             /\ t[4].a[c].a[1].t # "str"

\* The text a wire string decodes to.
TextOf(v) == IF v.utf8 THEN v.s ELSE "U+FFFD"

\* C12: grid_line maps its cells to GridLineCell values one to one and in input
\* order: text is the string of element 0, highlight_id is present exactly when
\* element 1 exists and then holds it, repeat is present exactly when element 2
\* exists and then holds it, the elements past index 2 are ignored; a cell whose
\* element 0 is no string is a parse error (of kind String, reported in a Format).
C12_CellsMapped ==
    (Done /\ event_name = "grid_line" /\ N = 1 /\ IsTuple(1)) =>
        LET t == Elems[1].a IN
        /\ GridLineOf(t, FALSE) =>
              /\ result.k = "ok"
              /\ Len(result.val) = 1
              /\ Len(result.val[1].cells) = Len(t[4].a)
              /\ \A c \in 1..Len(t[4].a) :
                    LET in == t[4].a[c].a
                        out == result.val[1].cells[c]
                    IN
                    /\ out.text = TextOf(in[1])
                    /\ out.highlight_id = IF Len(in) >= 2 THEN Some(in[2].i) ELSE None
                    /\ out.repeat = IF Len(in) >= 3 THEN Some(in[3].i) ELSE None
        /\ (GridLineOf(t, TRUE) /\ ~GridLineOf(t, FALSE)) =>
              /\ IsFormatError(result)
              /\ result.err.value.inner.prefix = DisplayPrefix("String")

\* The three cells ["H", 7], ["i"], [" ", 7, 78] were decoded.
C12_Witness ==
    /\ Done /\ event_name = "grid_line" /\ N = 1 /\ IsTuple(1)
    /\ GridLineOf(Elems[1].a, FALSE)
    /\ result.k = "ok"
    /\ result.val[1].cells =
          <<[text |-> "H", highlight_id |-> Some(7), repeat |-> None],
            [text |-> "i", highlight_id |-> None, repeat |-> None],
            [text |-> " ", highlight_id |-> Some(7), repeat |-> Some(78)]>>

----------------------------------------------------------------------------
(* C13, C16, C20 -- the attribute map of hl_attr_define.                   *)

ColorAttributes == {"foreground", "background", "special"}

FlagAttributes == {"reverse", "italic", "bold", "strikethrough"}

\* The style each underline-group key stands for.
UnderlineGroup ==
    [underline |-> "Underline", undercurl |-> "UnderCurl",
     underdotted |-> "UnderDot", underdot |-> "UnderDot",
     underdashed |-> "UnderDash", underdash |-> "UnderDash",
     underdouble |-> "UnderDouble", underlineline |-> "UnderDouble"]

RecognizedAttributes ==
    ColorAttributes \cup FlagAttributes \cup {"blend"} \cup DOMAIN UnderlineGroup

\* The key is a string that names a recognized attribute.
IsRecognizedKey(key) == key.t = "str" /\ key.utf8 /\ key.s \in RecognizedAttributes

\* The entry has a recognized key and a value the attribute can take.
Usable(entry) ==
    /\ IsRecognizedKey(entry[1])
    /\ IF entry[1].s \in ColorAttributes \cup {"blend"} THEN IsU64(entry[2])
       ELSE entry[2].t = "bool"

\* The single tuple of an hl_attr_define payload with a valid id and a map of
\* attributes.
HlAttrDefineOne ==
    /\ Done /\ event_name = "hl_attr_define" /\ N = 1 /\ IsTuple(1)
    /\ Len(Elems[1].a) >= 4
    /\ IsU64(Elems[1].a[1])
    /\ Elems[1].a[2].t = "map"

\* The attribute entries of that tuple.
Attributes == Elems[1].a[2].m

\* The result of decoding that tuple with the attribute entries es in place of
\* its own.
DecodedWith(es) ==
    LET t == Elems[1].a IN
    LET possible == possible_parsed_event(event_name, [t EXCEPT ![2] = M(es)]) IN
    IF possible.val.k = "ok" THEN Ok(<<possible.val.val>>) ELSE possible.val

\* C13 as stated, for maps whose recognized keys hold usable values: every entry
\* whose key is not a recognized attribute name (a key that is no string and a
\* string key that is not valid UTF-8 included) is ignored, so the decode
\* succeeds with the Style decoded from the map with those entries removed.
C13_UnknownKeysIgnored ==
    (HlAttrDefineOne /\ \A j \in 1..Len(Attributes) :
                            IsRecognizedKey(Attributes[j][1]) => Usable(Attributes[j])) =>
        LET Kept(entry) == IsRecognizedKey(entry[1]) IN
        /\ result.k = "ok"
        /\ result = DecodedWith(SelectSeq(Attributes, Kept))

\* The positions of the underline-group keys whose value is true.
TrueUnderlines ==
    {j \in 1..Len(Attributes) :
        /\ IsRecognizedKey(Attributes[j][1])
        /\ Attributes[j][1].s \in DOMAIN UnderlineGroup
        /\ Attributes[j][2].t = "bool"
        /\ Attributes[j][2].b}

\* Every key of the map is a string of valid UTF-8 and every color and blend that
\* is an integer is not negative.
DecodableAttributes ==
    \A j \in 1..Len(Attributes) :
        /\ Attributes[j][1].t = "str" => Attributes[j][1].utf8
        /\ (IsRecognizedKey(Attributes[j][1]) /\ Attributes[j][2].t = "int") =>
              Usable(Attributes[j])

\* C16: the underline style of the decoded Style is the one of the last
\* underline-group key in map order whose value is true, and is absent when no
\* underline-group key is true; a key whose value is false (or no boolean)
\* neither sets nor clears it.
C16_LastTrueUnderline ==
    (HlAttrDefineOne /\ DecodableAttributes) =>
        /\ result.k = "ok"
        /\ result.val[1].style.underline =
              IF TrueUnderlines = {} THEN None
              ELSE LET last == CHOOSE j \in TrueUnderlines :
                                   \A o \in TrueUnderlines : o <= j
                   IN Some(UnderlineGroup[Attributes[last][1].s])

\* A map was decoded in which two underline-group keys of different styles are
\* true and a false underline-group key comes after them.
C16_Witness ==
    /\ HlAttrDefineOne /\ DecodableAttributes
    /\ result.k = "ok"
    /\ \E o \in TrueUnderlines, j \in TrueUnderlines, f \in 1..Len(Attributes) :
          /\ o < j /\ j < f
          /\ UnderlineGroup[Attributes[o][1].s] # UnderlineGroup[Attributes[j][1].s]
          /\ IsRecognizedKey(Attributes[f][1])
          /\ Attributes[f][1].s \in DOMAIN UnderlineGroup
          /\ Attributes[f][2].t = "bool" /\ ~Attributes[f][2].b
          /\ result.val[1].style.underline = Some(UnderlineGroup[Attributes[j][1].s])

\* C20 as stated, for maps whose string keys are valid UTF-8: whatever the values
\* of the recognized keys, the decode returns a Style, and an entry whose key is
\* recognized but whose value is unusable (a wrong wire type, or a negative
\* integer for foreground, background, special or blend) leaves the Style as the
\* map without that entry gives it.
C20_UnusableValuesHarmless ==
    (HlAttrDefineOne /\ \A j \in 1..Len(Attributes) :
                            Attributes[j][1].t = "str" => Attributes[j][1].utf8) =>
        LET Kept(entry) == IsRecognizedKey(entry[1]) => Usable(entry) IN
        /\ result.k = "ok"
        /\ result = DecodedWith(SelectSeq(Attributes, Kept))

----------------------------------------------------------------------------
(* C14 -- unknown options and unknown modes.                               *)

\* The option names parse_option_set recognizes.
KnownOptions ==
    {"arabicshape", "ambiwidth", "emoji", "guifont", "guifontset", "guifontwide",
     "linespace", "pumblend", "showtabline", "termguicolors"}

\* The mode strings parse_mode_change recognizes.
KnownModes == {"normal", "insert", "visual", "replace", "cmdline_normal"}

\* The payload holds one tuple, of at least two values, that starts with a string
\* outside known.
OneUnknown(name, known) ==
    /\ Done /\ event_name = name /\ N = 1 /\ IsTuple(1)
    /\ Len(Elems[1].a) >= 2
    /\ Elems[1].a[1].t = "str"
    /\ TextOf(Elems[1].a[1]) \notin known

\* C14: option_set with a name string outside the ten recognized options succeeds
\* with Unknown(name, raw value) whatever the wire type of the value, and
\* mode_change with a mode string outside the five recognized ones and a valid
\* mode_index succeeds with the mode Unknown(that string).
C14_UnknownWidened ==
    /\ OneUnknown("option_set", KnownOptions) =>
          result = Ok(<<[type |-> "OptionSet",
                         gui_option |-> [opt |-> "Unknown",
                                         name |-> TextOf(Elems[1].a[1]),
                                         raw |-> Elems[1].a[2]]]>>)
    /\ (OneUnknown("mode_change", KnownModes) /\ IsU64(Elems[1].a[2])) =>
          result = Ok(<<[type |-> "ModeChange",
                         mode |-> [mode |-> "Unknown", name |-> TextOf(Elems[1].a[1])],
                         mode_index |-> Elems[1].a[2].i]>>)

\* An unknown option was decoded with a value that is a map.
C14_Witness ==
    /\ OneUnknown("option_set", KnownOptions)
    /\ Elems[1].a[2].t = "map"
    /\ result.k = "ok"
    /\ result.val[1].gui_option.opt = "Unknown"

----------------------------------------------------------------------------
(* C15 -- the variant the decoder never builds.                            *)

\* The variants of RedrawEvent.
RedrawEventVariants ==
    {"SetTitle", "ModeInfoSet", "OptionSet", "ModeChange", "MouseOn", "MouseOff",
     "BusyStart", "BusyStop", "Flush", "Resize", "DefaultColorsSet",
     "HighlightAttributesDefine", "GridLine", "Clear", "Destroy", "CursorGoto",
     "Scroll", "WindowPosition", "WindowFloatPosition", "WindowExternalPosition",
     "WindowHide", "WindowClose", "MessageSetPosition", "WindowViewport",
     "WindowViewportMargins", "CommandLineShow", "CommandLinePosition",
     "CommandLineSpecialCharacter", "CommandLineHide", "CommandLineBlockShow",
     "CommandLineBlockAppend", "CommandLineBlockHide", "MessageShow", "MessageClear",
     "MessageShowMode", "MessageShowCommand", "MessageRuler", "MessageHistoryShow",
     "Suspend", "NeovideSetRedraw"}

\* C15: whatever the payload, every event parse_redraw_event returns is a variant
\* of RedrawEvent other than NeovideSetRedraw.
C15_NeverSetRedraw ==
    (pc = "done" /\ result.k = "ok") =>
        \A i \in 1..Len(result.val) :
            result.val[i].type \in RedrawEventVariants \ {"NeovideSetRedraw"}

\* A suspend payload of two tuples returned its two events.
C15_Witness ==
    /\ Done /\ event_name = "suspend" /\ N = 2
    /\ result = Ok(<<[type |-> "Suspend"], [type |-> "Suspend"]>>)

----------------------------------------------------------------------------
(* C17 -- unpack_color.                                                    *)

\* The single tuple of a default_colors_set payload with its three colors valid.
DefaultColorsOne ==
    /\ Done /\ event_name = "default_colors_set" /\ N = 1 /\ IsTuple(1)
    /\ Len(Elems[1].a) >= 5
    /\ \A j \in 1..3 : IsU64(Elems[1].a[j])

\* The packed colors of that tuple and the colors decoded from them, slot by slot.
Packed == [j \in 1..3 |-> Elems[1].a[j].i]

Unpacked ==
    <<result.val[1].colors.foreground.val, result.val[1].colors.background.val,
      result.val[1].colors.special.val>>

\* C17: the color unpack_color gives for c has red (c div 65536) mod 256, green
\* (c div 256) mod 256, blue c mod 256, each over 255, and alpha 1; two packed
\* values give the same color exactly when they agree on their low 24 bits.
C17_Low24Bits ==
    DefaultColorsOne =>
        /\ result.k = "ok"
        /\ \A j \in 1..3 :
              /\ Unpacked[j].r = <<(Packed[j] \div 65536) % 256, 255>>
              /\ Unpacked[j].g = <<(Packed[j] \div 256) % 256, 255>>
              /\ Unpacked[j].b = <<Packed[j] % 256, 255>>
              /\ Unpacked[j].a = <<1, 1>>
        /\ \A j \in 1..3, o \in 1..3 :
              (Unpacked[j] = Unpacked[o]) <=>
                  (Packed[j] % 16777216 = Packed[o] % 16777216)

\* Two packed values that differ above bit 23 only gave one color, and a third
\* that differs from them in its lowest bit gave another.
C17_Witness ==
    /\ DefaultColorsOne /\ result.k = "ok"
    /\ Packed[1] # Packed[2] /\ Unpacked[1] = Unpacked[2]
    /\ Packed[3] = Packed[2] + 1 /\ Unpacked[3] # Unpacked[2]

----------------------------------------------------------------------------
(* C18 -- the maps of mode_info_set.                                       *)

\* The keys parse_mode_info_set recognizes, with the CursorMode field each sets.
ModeInfoKeys ==
    [cursor_shape |-> "shape", cell_percentage |-> "cell_percentage",
     blinkwait |-> "blinkwait", blinkon |-> "blinkon", blinkoff |-> "blinkoff",
     attr_id |-> "style_id"]

\* The key is the string name.
IsKey(key, name) == key.t = "str" /\ TextOf(key) = name

\* The single tuple of a mode_info_set payload whose second value is an array of
\* maps with well-typed values for the recognized keys.
ModeInfoSetOne ==
    /\ Done /\ event_name = "mode_info_set" /\ N = 1 /\ IsTuple(1)
    /\ Len(Elems[1].a) >= 2
    /\ Elems[1].a[2].t = "arr"
    /\ \A i \in 1..Len(Elems[1].a[2].a) :
          /\ Elems[1].a[2].a[i].t = "map"
          /\ \A j \in 1..Len(Elems[1].a[2].a[i].m) :
                LET e == Elems[1].a[2].a[i].m[j] IN
                /\ IsKey(e[1], "cursor_shape") => e[2].t = "str"
                /\ (\E name \in DOMAIN ModeInfoKeys \ {"cursor_shape"} : IsKey(e[1], name))
                      => IsU64(e[2])

\* The maps of that tuple.
ModeMaps == [i \in 1..Len(Elems[1].a[2].a) |-> Elems[1].a[2].a[i].m]

\* Every key of every map is a string.
StringKeys == \A i \in DOMAIN ModeMaps : \A j \in 1..Len(ModeMaps[i]) : ModeMaps[i][j][1].t = "str"

\* The field the entries of the map m give for the key name: the value of the last
\* entry with that key, or nothing.
FieldOf(m, name) ==
    LET at == {j \in 1..Len(m) : IsKey(m[j][1], name)} IN
    IF at = {} THEN None
    ELSE LET v == m[CHOOSE j \in at : \A o \in at : o <= j][2] IN
         CASE name = "cursor_shape" -> CursorShape_from_type_name(TextOf(v))
           [] name = "cell_percentage" -> Some(<<v.i, 100>>)
           [] OTHER -> Some(v.i)

\* The call succeeded with one CursorMode per map, in input order, each built from
\* the recognized keys of its map alone.
OneModePerMap ==
    /\ result.k = "ok"
    /\ Len(result.val) = 1
    /\ result.val[1].type = "ModeInfoSet"
    /\ Len(result.val[1].cursor_modes) = Len(ModeMaps)
    /\ \A i \in DOMAIN ModeMaps : \A name \in DOMAIN ModeInfoKeys :
          result.val[1].cursor_modes[i][ModeInfoKeys[name]] = FieldOf(ModeMaps[i], name)

\* C18 as stated: with well-typed values for the recognized keys there is one
\* CursorMode per map in input order, and an entry whose key is not one of the six
\* is ignored whatever the wire type of that key or of its value.
C18_AnyOtherKeyIgnored == ModeInfoSetOne => OneModePerMap

\* C18, amended: with well-typed values for the recognized keys and string keys
\* only, there is one CursorMode per map in input order and an entry whose key is
\* a string other than the six is ignored whatever the wire type of its value; a
\* key that is no string fails the call with the String error in a Format.
C18_OtherStringKeysIgnored ==
    /\ (ModeInfoSetOne /\ StringKeys) => OneModePerMap
    /\ (ModeInfoSetOne /\ ~StringKeys) =>
          /\ IsFormatError(result)
          /\ result.err.value.inner.prefix = DisplayPrefix("String")

\* Two maps with unknown string keys (one of them not UTF-8) around a repeated
\* blinkoff were decoded to two CursorModes.
C18_Witness ==
    /\ ModeInfoSetOne /\ StringKeys
    /\ Len(ModeMaps) = 2
    /\ \E j \in 1..Len(ModeMaps[1]) :
          ModeMaps[1][j][1].t = "str" /\ ~ModeMaps[1][j][1].utf8
    /\ result.k = "ok"
    /\ result.val[1].cursor_modes[1].blinkoff = Some(4)
    /\ result.val[1].cursor_modes[2] = CursorMode_default

----------------------------------------------------------------------------
(* C19 -- the slots the parsers bind and never read.                       *)

\* The positions (from 1) of the slots each parser ignores.
IgnoredSlots ==
    [win_pos |-> {2}, win_float_pos |-> {2}, win_external_pos |-> {2},
     win_viewport |-> {2}, win_viewport_margins |-> {2},
     default_colors_set |-> {4, 5}, hl_attr_define |-> {3, 4},
     mode_info_set |-> {1}]

\* Values of every wire type to put in an ignored slot.
SlotValues ==
    {Nil, B(FALSE), I(3), I(-1), F(1), S("w"), BadS, A(<<I(1)>>), M(<<>>), Ext(9)}

\* The single tuple of a payload of an event with ignored slots.
IgnoredSlotOne ==
    /\ Done /\ event_name \in DOMAIN IgnoredSlots /\ N = 1 /\ IsTuple(1)

\* The tuples that differ from that tuple in one ignored slot only.
Variants ==
    {[Elems[1].a EXCEPT ![s] = v] :
        s \in IgnoredSlots[event_name] \cap (1..Len(Elems[1].a)), v \in SlotValues}

\* What parse_redraw_event returns for the one tuple t after the event's name.
ReturnedFor(t) ==
    LET possible == possible_parsed_event(event_name, t) IN
    IF possible.val.k = "ok" THEN Ok(<<possible.val.val>>)
    ELSE IF possible.val.k = "err" THEN event_error(event_name, t, possible.val.err)
    ELSE possible.val

\* C19 as stated: two tuples that differ only in an ignored slot give the same
\* result, success or failure, whatever wire type the ignored slot holds.
C19_SameResult ==
    IgnoredSlotOne =>
        /\ result = ReturnedFor(Elems[1].a)
        /\ \A t \in Variants : ReturnedFor(t) = result

\* C19, amended: two tuples that differ only in an ignored slot both succeed with
\* the same event, or both fail with a Format error for the same event name whose
\* parser error is of the same kind, and is the same error unless it is itself a
\* Format error that dumps the tuple, or both abort alike; the dump of the tuple
\* in the message of a failure shows the ignored slot.
C19_SameOutcome ==
    IgnoredSlotOne =>
        /\ result = ReturnedFor(Elems[1].a)
        /\ \A t \in Variants :
              LET other == ReturnedFor(t) IN
              /\ other.k = result.k
              /\ result.k # "err" => other = result
              /\ result.k = "err" =>
                    /\ IsFormatError(result) /\ IsFormatError(other)
                    /\ other.err.value.event = result.err.value.event
                    /\ other.err.value.params = Debug(t)
                    /\ other.err.value.inner.prefix = result.err.value.inner.prefix
                    /\ result.err.value.inner.prefix # DisplayPrefix("Format") =>
                          other.err.value.inner = result.err.value.inner

\* A win_pos tuple holding a window handle of the ext type was decoded, and so
\* were its variants with a string or nil in that slot.
C19_Witness ==
    /\ IgnoredSlotOne /\ event_name = "win_pos"
    /\ Elems[1].a[2].t = "ext"
    /\ result.k = "ok"
    /\ result.val[1].type = "WindowPosition"
    /\ [Elems[1].a EXCEPT ![2] = S("w")] \in Variants
    /\ ReturnedFor([Elems[1].a EXCEPT ![2] = Nil]) = result

====
